---- MODULE Spec2Model ----
(***************************************************************************)
(* A model of the xx-pulse runtime: the driver's timer set and exit        *)
(* protocol (src/driver.rs), the io_uring engine's outstanding-work        *)
(* counters (src/engine/uring/engine.rs), Runtime::block_on                *)
(* (src/runtime.rs) and the per-worker interrupt protocol                  *)
(* (src/async_runtime.rs).                                                 *)
(*                                                                         *)
(* The runtime is single threaded.  `pc` is the position of the runtime    *)
(* thread: inside one of the driver's loops, or inside task code that a    *)
(* completion callback resumed (pc = "task").  Task code is modelled by    *)
(* the driver operations it may call, in any order.                        *)
(***************************************************************************)
EXTENDS Integers, FiniteSets, Sequences, TLC

\* ---- bounds ----
NReq == 2          \* timer requests (addresses 1..NReq)
MaxTime == 1       \* the monotonic clock runs over 0..MaxTime
MaxDelay == 1      \* largest expire argument passed to Driver::timeout
MaxOps == 1        \* cap on SQEs outstanding (unflushed + owed) at once
SqCapacity == 2    \* submission ring capacity reported by the kernel
MaxRuns == 1       \* calls of Runtime::block_on before the runtime is dropped
MaxRounds == 1     \* rounds of Runtime::drop's interrupt-and-exit loop
MaxGuards == 3     \* cap on nested interrupt guards
MaxSelects == 2    \* calls of select made one after another
MaxJoins == 2      \* calls of join made one after another
NSpawn == 2        \* tasks spawned, each with its own JoinHandle
NWorkers == 2      \* workers linked in Runtime.workers
MaxSwallow == 2    \* interrupts a worker takes and ignores before it ends
NWaiters == 2      \* tasks that sleep on the waker and are woken by threads
MaxWakes == 2      \* times each of them calls prepare_wake
MaxCold == 1       \* polls of the event fd that complete with other flags
NMore == 3         \* further waiters, each woken once, that fill the queue
TimeBits == 3      \* width of a time value where its overflow is modelled
CqBits == 2        \* the completion ring has 2^CqBits entries
SqBits == 1        \* the submission ring has 2^SqBits entries
MaxStart == 3      \* engine operations started, one more than the ring holds
MaxCancels == 1    \* cancel tokens of engine operations that are run

\* ---- program constants ----
OneHour == 3600    \* duration!(1 hour), in the model's time unit
MAX_RESUME == 4    \* requests process_wake takes from the queue per lock
U64Max == 2^TimeBits - 1   \* u64::MAX at the modelled width
CqEntries == 2^CqBits      \* completion.entries.len(); mask is one less
PosMod == 2 * CqEntries    \* ring positions wrap here (2^32 in the code)
NO_OP == 0                 \* the address of the static no-op Request
SqEntries == 2^SqBits      \* submission.capacity; mask is one less

Requests == 1..NReq
Outputs == {23, 110}

VARIABLES
    clock,        \* OS monotonic clock
    timers,       \* Driver.timers : BTreeSet<Timeout>
    exiting,      \* Driver.exiting
    to_submit,    \* IoUring.to_submit
    to_complete,  \* IoUring.to_complete
    req,          \* per timer request: protocol state and history
    token,        \* per timer request: state of its cancel token
    pc,           \* position of the runtime thread
    ret,          \* where task code returns to when it suspends
    caller,       \* the driver loop on the stack: none / block_while / exit
    rt,           \* locals of run_timers: [now, ran, timeout]
    running,      \* Runtime::block_on's `running` cell
    task,         \* main task: [done, output]
    result,       \* what block_on returned: [returned, value]
    atExit,       \* requests that were in the timer set when exit was called
    step,         \* the last operation performed and its outcome
    life,         \* [runs, rounds]: block_on calls made, exit rounds of drop
    ctx,          \* Context: [guards, interrupted, pending_interrupt, cancel]
    op,           \* the operation the worker is blocked on, and its history
    cstep         \* the last Context operation and its outcome

VARIABLES
    sel,          \* SelectData: [cancel, result, request, sync_done]
    selh          \* the select's branches, its outer request and its history

VARIABLES
    jn,           \* JoinData: [cancel, result, request]
    jnh           \* the join's branches, its outer request and its history

VARIABLES
    sp,           \* per spawned task, Spawn: [cancel, waiter, output, refs]
    sph           \* per spawned task: the task, its JoinHandle, the allocation

VARIABLES
    rdrop,        \* Runtime.workers, Runtime::drop's local list and position
    wk            \* per worker: its Context and what it is blocked on

VARIABLES
    wch,          \* IoUring's wake_queue, event fd, expected_wakes and poll
    wt            \* per waiter: its request, and the thread that wakes it

VARIABLES
    tmo           \* one call of Driver::timeout at the modelled width

VARIABLES
    iv            \* an Interval, the clock, and its last call of next

VARIABLES
    cq            \* the completion ring and run_events' pass over it

VARIABLES
    sq            \* the submission ring, IoUring's counters and the kernel

selvars == <<sel, selh>>
jnvars == <<jn, jnh>>
spvars == <<sp, sph>>
rdvars == <<rdrop, wk>>
wakevars == <<wch, wt>>
tmovars == <<tmo>>
ivvars == <<iv>>
cqvars == <<cq>>
sqvars == <<sq>>
ovars == <<selvars, jnvars, spvars, rdvars, wakevars, tmovars, ivvars, cqvars, sqvars>>

dvars == <<clock, timers, exiting, to_submit, to_complete, req, token, pc, ret,
           caller, rt, running, task, result, atExit, step, life>>
cvars == <<ctx, op, cstep>>
notsel == <<dvars, cvars, jnvars, spvars, rdvars, wakevars, tmovars, ivvars, cqvars, sqvars>>
notjn == <<dvars, cvars, selvars, spvars, rdvars, wakevars, tmovars, ivvars, cqvars, sqvars>>
notsp == <<dvars, cvars, selvars, jnvars, rdvars, wakevars, tmovars, ivvars, cqvars, sqvars>>
notrd == <<dvars, cvars, selvars, jnvars, spvars, wakevars, tmovars, ivvars, cqvars, sqvars>>
notwake == <<dvars, cvars, selvars, jnvars, spvars, rdvars, tmovars, ivvars, cqvars, sqvars>>
nottmo == <<dvars, cvars, selvars, jnvars, spvars, rdvars, wakevars, ivvars, cqvars, sqvars>>
notiv == <<dvars, cvars, selvars, jnvars, spvars, rdvars, wakevars, tmovars,
          cqvars, sqvars>>
notcq == <<dvars, cvars, selvars, jnvars, spvars, rdvars, wakevars, tmovars,
          ivvars, sqvars>>
notsq == <<dvars, cvars, selvars, jnvars, spvars, rdvars, wakevars, tmovars,
          ivvars, cqvars>>
vars == <<clock, timers, exiting, to_submit, to_complete, req, token, pc, ret,
          caller, rt, running, task, result, atExit, step, life, ctx, op, cstep,
          ovars>>

\* ------------------------------------------------------------------------
\* Requests
\* ------------------------------------------------------------------------
IdleReq == [state |-> "idle", result |-> "none", completions |-> 0, by |-> "none",
            expire |-> 0, inPass |-> FALSE]

Min(a, b) == IF a < b THEN a ELSE b

\* Request::complete as called by Driver::timer_complete
TimerComplete(rq, r, res, who) ==
    [rq EXCEPT ![r] = [@ EXCEPT !.state = "done",
                                !.result = res,
                                !.completions = Min(@ + 1, 2),
                                !.by = who]]

\* ------------------------------------------------------------------------
\* Timer set
\* ------------------------------------------------------------------------
Timeout(e, r) == [expire |-> e, request |-> r]

\* #[derive(Ord)] on Timeout: by expire, then by request address
TimeoutLess(a, b) ==
    \/ a.expire < b.expire
    \/ a.expire = b.expire /\ a.request < b.request

\* BTreeSet::first
First(S) == CHOOSE t \in S : \A u \in S : u = t \/ TimeoutLess(t, u)

SatSub(a, b) == IF a > b THEN a - b ELSE 0

\* the comparison of run_timers: a timer is left alone while expire > now
TimerDueEarly(timer, now) == ~(timer.expire > now + 1)

TimerDue(timer, now) == ~(timer.expire > now)

\* Driver::cancel_timer: BTreeSet::take returns Some only for an entry of the set
TimerFoundAlways(S, timer) == TRUE

TimerFound(S, timer) == timer \in S

\* Driver::cancel_timer: the timer set after BTreeSet::take
CancelTakeKeeps(S, timer) == S

CancelTake(S, timer) == S \ {timer}

\* IoUring::has_work
HasWorkUnflushedOnly == to_submit # 0

HasWork == to_complete # 0 \/ to_submit # 0

Tag(name, r, res) == [op |-> name, r |-> r, res |-> res]

\* ------------------------------------------------------------------------
\* The clock
\* ------------------------------------------------------------------------
Tick ==
    /\ clock < MaxTime
    /\ clock' = clock + 1
    /\ UNCHANGED <<timers, exiting, to_submit, to_complete, req, token, pc, ret,
                   caller, rt, running, task, result, atExit, step>>
    /\ UNCHANGED <<life, ctx, op, cstep, ovars>>

\* ------------------------------------------------------------------------
\* run_timers, one loop iteration per step
\* ------------------------------------------------------------------------
\* the locals are gone at return; the result is the timeout
Returned(timeout) == [now |-> 0, ran |-> FALSE, timeout |-> timeout]

\* entry: read the clock, then loop
RunTimersEntry ==
    /\ rt' = [now |-> clock, ran |-> FALSE, timeout |-> OneHour]
    /\ pc' = "rt_loop"

\* `if ran { now = Self::time() }`: the reading the returned wait counts from
RefreshedNowStale == rt.now

RefreshedNow == IF rt.ran THEN clock ELSE rt.now

\* history only: no request was inserted during a pass that has ended
PassOver(rq) == [r \in Requests |-> [rq[r] EXCEPT !.inPass = FALSE]]

RunTimersLoop ==
    /\ pc = "rt_loop"
    /\ IF timers = {}
       THEN /\ rt' = Returned(rt.timeout)
            /\ pc' = IF caller = "exit" THEN "exit_check" ELSE "bw_check1"
            /\ step' = Tag("run_timers_return", 0, "none")
            /\ req' = PassOver(req)
            /\ UNCHANGED <<timers, ret>>
       ELSE LET timer == First(timers) IN
            IF ~TimerDue(timer, rt.now)
            THEN LET now == RefreshedNow IN
                 /\ rt' = Returned(SatSub(timer.expire, now))
                 /\ pc' = IF caller = "exit" THEN "exit_check" ELSE "bw_check1"
                 /\ step' = Tag("run_timers_return", 0, "none")
                 /\ req' = PassOver(req)
                 /\ UNCHANGED <<timers, ret>>
            ELSE /\ rt' = [rt EXCEPT !.ran = TRUE]
                 /\ timers' = timers \ {timer}
                 /\ req' = TimerComplete(req, timer.request, "Ok", "run_timers")
                 /\ pc' = "task"
                 /\ ret' = "rt_loop"
                 /\ step' = Tag("fire", timer.request, "Ok")
    /\ UNCHANGED <<clock, exiting, to_submit, to_complete, token, caller,
                   running, task, result, atExit>>
    /\ UNCHANGED <<life, ctx, op, cstep, ovars>>

\* ------------------------------------------------------------------------
\* Task code: the driver operations a running task may call
\* ------------------------------------------------------------------------
\* Driver::timeout(expire, flags, request)
DriverTimeout(r, e, abs) ==
    /\ pc = "task"
    /\ req[r].state = "idle"
    /\ IF exiting
       THEN \* Progress::Done(Err(shutdown()))
            /\ req' = [req EXCEPT ![r].state = "rejected", ![r].result = "Shutdown"]
            /\ step' = Tag("timeout", r, "Shutdown")
            /\ UNCHANGED <<timers, token>>
       ELSE LET expire == IF abs THEN e ELSE e + clock IN
            /\ timers' = timers \cup {Timeout(expire, r)}
            /\ req' = [req EXCEPT ![r].state = "pending", ![r].expire = expire,
                                  ![r].inPass = (ret = "rt_loop")]
            /\ token' = [token EXCEPT ![r] = "live"]
            /\ step' = Tag("timeout", r, "Pending")
    /\ UNCHANGED <<clock, exiting, to_submit, to_complete, pc, ret, caller, rt,
                   running, task, result, atExit>>
    /\ UNCHANGED <<life, ctx, op, cstep, ovars>>

\* running the cancel token returned by Driver::timeout: Driver::cancel_timer
CancelTimer(r) ==
    /\ pc = "task"
    /\ token[r] = "live"
    /\ token' = [token EXCEPT ![r] = "used"]
    /\ LET timer == Timeout(req[r].expire, r) IN
       IF TimerFound(timers, timer)
       THEN /\ timers' = CancelTake(timers, timer)
            /\ req' = TimerComplete(req, r, "Interrupted", "cancel")
            /\ step' = Tag("cancel", r, "Ok")
       ELSE /\ step' = Tag("cancel", r, "NotFound")
            /\ UNCHANGED <<timers, req>>
    /\ UNCHANGED <<clock, exiting, to_submit, to_complete, pc, ret, caller, rt,
                   running, task, result, atExit>>
    /\ UNCHANGED <<life, ctx, op, cstep, ovars>>

\* the interrupt check of ops::timeout: `check_interrupt().await?` runs
\* before the driver is called
TimerInterruptedNever(intr) == FALSE

TimerInterrupted(intr) == intr

\* history: the name `step` records for a yield_now, by the caller's
\* interrupted flag
YieldName(intr) == IF intr THEN "yield_now_interrupted" ELSE "yield_now"

\* yield_now of ops/timers.rs, called by a task whose interrupted flag is
\* `intr`: `let _ = sleep(Duration::ZERO).await`, where sleep is
\* ops::timeout(0, TimeoutFlag::None): check_interrupt, then Driver::timeout
\* with a zero relative expiry; the error is discarded
YieldNow(r, intr) ==
    /\ pc = "task"
    /\ req[r].state = "idle"
    /\ IF TimerInterrupted(intr)
       THEN /\ step' = Tag(YieldName(intr), r, "Interrupted")
            /\ UNCHANGED <<timers, req, token>>
       ELSE IF exiting
       THEN /\ req' = [req EXCEPT ![r].state = "rejected", ![r].result = "Shutdown"]
            /\ step' = Tag(YieldName(intr), r, "Shutdown")
            /\ UNCHANGED <<timers, token>>
       ELSE LET expire == 0 + clock IN
            /\ timers' = timers \cup {Timeout(expire, r)}
            /\ req' = [req EXCEPT ![r].state = "pending", ![r].expire = expire,
                                  ![r].inPass = (ret = "rt_loop")]
            /\ token' = [token EXCEPT ![r] = "live"]
            /\ step' = Tag(YieldName(intr), r, "Pending")
    /\ UNCHANGED <<clock, exiting, to_submit, to_complete, pc, ret, caller, rt,
                   running, task, result, atExit>>
    /\ UNCHANGED <<life, ctx, op, cstep, ovars>>

\* IoUring::enter: everything pushed is handed to the kernel
EnterSubmit == [submit |-> 0, complete |-> to_complete + to_submit]

\* IoUring::push, after the SQE has been written
PushCounters ==
    IF to_submit + 1 < SqCapacity
    THEN [submit |-> to_submit + 1, complete |-> to_complete]
    ELSE [submit |-> 0, complete |-> to_complete + to_submit + 1]

\* the exiting check of async_engine_task!: close is forced past it
IoRejectsNever(force) == FALSE

IoRejects(force) == ~force /\ exiting

\* the interrupt check of async_engine_task!: close is forced past it too
IoInterruptedAny(force, intr) == intr

IoInterrupted(force, intr) == ~force /\ intr

\* history: the inputs of an I/O primitive, as recorded in `step`
IoFlags(force, intr) == (IF force THEN 1 ELSE 0) + (IF intr THEN 2 ELSE 0)

\* an I/O primitive of ops/io.rs (async_engine_task!), called by a task whose
\* interrupted flag is `intr`; force is TRUE for close only; sync is TRUE when
\* the engine performs the operation synchronously
IoOp(force, intr, sync) ==
    /\ pc = "task"
    /\ to_submit + to_complete < MaxOps
    /\ IF IoInterrupted(force, intr)
       THEN /\ step' = Tag("io", IoFlags(force, intr), "Interrupted")
            /\ UNCHANGED <<to_submit, to_complete>>
       ELSE IF IoRejects(force)
       THEN /\ step' = Tag("io", IoFlags(force, intr), "Shutdown")
            /\ UNCHANGED <<to_submit, to_complete>>
       ELSE IF sync
       THEN /\ step' = Tag("io", IoFlags(force, intr), "Done")
            /\ UNCHANGED <<to_submit, to_complete>>
       ELSE /\ step' = Tag("io", IoFlags(force, intr), "Pending")
            /\ to_submit' = PushCounters.submit
            /\ to_complete' = PushCounters.complete
    /\ UNCHANGED <<clock, timers, exiting, req, token, pc, ret, caller, rt,
                   running, task, result, atExit>>
    /\ UNCHANGED <<life, ctx, op, cstep, ovars>>

\* the main task runs to its end: its request's callback is `resume`, which
\* clears `running`; a task that never suspended returns Progress::Done
TaskFinish(v) ==
    /\ pc = "task"
    /\ caller = "block_while" \/ ret = "bo_block"
    /\ ~task.done
    /\ task' = [done |-> TRUE, output |-> v]
    /\ running' = IF ret = "bo_block" THEN running ELSE FALSE
    /\ step' = Tag("finish", 0, "none")
    /\ UNCHANGED <<clock, timers, exiting, to_submit, to_complete, req, token,
                   pc, ret, caller, rt, result, atExit>>
    /\ UNCHANGED <<life, ctx, op, cstep, ovars>>

\* every resumed task has suspended again (or ended): control is back in the
\* code that completed the request
TaskSuspend ==
    /\ pc = "task"
    /\ pc' = ret
    /\ ret' = "none"
    /\ step' = Tag("suspend", 0, "none")
    /\ UNCHANGED <<clock, timers, exiting, to_submit, to_complete, req, token,
                   caller, rt, running, task, result, atExit>>
    /\ UNCHANGED <<life, ctx, op, cstep, ovars>>

\* ------------------------------------------------------------------------
\* The engine
\* ------------------------------------------------------------------------
\* Driver::park = IoUring::work(timeout): submit_and_wait, then run_events
\* dispatches the n completion entries the kernel has posted
Park ==
    /\ pc = "park"
    /\ \E n \in 0..(to_complete + to_submit) :
          /\ to_submit' = EnterSubmit.submit
          /\ to_complete' = EnterSubmit.complete - n
          /\ step' = Tag("park", n, "none")
          /\ IF n > 0
             THEN pc' = "task" /\ ret' = "after_park"
             ELSE pc' = "after_park" /\ ret' = ret
    /\ UNCHANGED <<clock, timers, exiting, req, token, caller, rt, running,
                   task, result, atExit>>
    /\ UNCHANGED <<life, ctx, op, cstep, ovars>>

\* ------------------------------------------------------------------------
\* Runtime::block_on and Driver::block_while
\* ------------------------------------------------------------------------
\* block_while's exit test `!block()`, where block is `|| running.get()`
BreakWhileRunning == running

BreakNow == ~running

\* what block_on hands back once the loop is left; history: `from` tells
\* where it was left (0: the future was Done at once, 1: the test before
\* park, 2: the test after park)
BlockOnReturn(from) ==
    /\ result' = [returned |-> TRUE, value |-> task.output]
    /\ caller' = "none"
    /\ pc' = "idle"
    /\ step' = Tag("block_on_return", from, "none")

\* Runtime::block_on: spawn the task and run it up to its first suspension
BlockOn ==
    /\ pc = "idle"
    /\ life.rounds = 0
    /\ life.runs < MaxRuns
    /\ life' = [life EXCEPT !.runs = @ + 1]
    /\ running' = TRUE
    /\ task' = [done |-> FALSE, output |-> 0]
    /\ result' = [returned |-> FALSE, value |-> 0]
    /\ pc' = "task"
    /\ ret' = "bo_block"
    /\ step' = Tag("block_on", 0, "none")
    /\ UNCHANGED <<clock, timers, exiting, to_submit, to_complete, req, token,
                   caller, rt, atExit>>
    /\ UNCHANGED <<ctx, op, cstep, ovars>>

\* future::block_on: Done returns at once, Pending calls `block`, which is
\* Driver::block_while; its first statement is run_timers
BlockOnBlock ==
    /\ pc = "bo_block"
    /\ IF task.done
       THEN /\ BlockOnReturn(0)
            /\ UNCHANGED rt
       ELSE /\ caller' = "block_while"
            /\ RunTimersEntry
            /\ step' = Tag("block_while", 0, "none")
            /\ UNCHANGED result
    /\ UNCHANGED <<clock, timers, exiting, to_submit, to_complete, req, token,
                   ret, running, task, atExit>>
    /\ UNCHANGED <<life, ctx, op, cstep, ovars>>

\* block_while: the test between run_timers and park
BlockWhileCheck ==
    /\ pc = "bw_check1"
    /\ IF BreakNow
       THEN BlockOnReturn(1)
       ELSE /\ pc' = "park"
            /\ step' = Tag("block_while_park", 0, "none")
            /\ UNCHANGED <<result, caller>>
    /\ UNCHANGED <<clock, timers, exiting, to_submit, to_complete, req, token,
                   ret, rt, running, task, atExit>>
    /\ UNCHANGED <<life, ctx, op, cstep, ovars>>

\* block_while's second test, after park; exit's loop has none
BreakAfterParkNever == FALSE

BreakAfterPark == caller = "block_while" /\ BreakNow

\* after park: block_while tests again and loops to run_timers; exit's loop
\* goes straight back to run_timers
AfterPark ==
    /\ pc = "after_park"
    /\ IF BreakAfterPark
       THEN /\ BlockOnReturn(2)
            /\ UNCHANGED rt
       ELSE /\ RunTimersEntry
            /\ step' = Tag("loop", 0, "none")
            /\ UNCHANGED <<result, caller>>
    /\ UNCHANGED <<clock, timers, exiting, to_submit, to_complete, req, token,
                   ret, running, task, atExit>>
    /\ UNCHANGED <<life, ctx, op, cstep, ovars>>

\* ------------------------------------------------------------------------
\* Runtime::drop and Driver::exit
\* ------------------------------------------------------------------------
\* Runtime::drop interrupts the linked workers: their cancel tokens run and
\* the tasks they resume execute; then it calls Driver::exit
Drop ==
    /\ pc = "idle"
    /\ life.rounds < MaxRounds
    /\ life' = [life EXCEPT !.rounds = @ + 1]
    /\ pc' = "task"
    /\ ret' = "exit_start"
    /\ step' = Tag("drop", 0, "none")
    /\ UNCHANGED <<clock, timers, exiting, to_submit, to_complete, req, token,
                   caller, rt, running, task, result, atExit>>
    /\ UNCHANGED <<ctx, op, cstep, ovars>>

ExitStart ==
    /\ pc = "exit_start"
    /\ exiting' = TRUE
    /\ caller' = "exit"
    /\ atExit' = {t.request : t \in timers}
    /\ pc' = "exit_drain"
    /\ step' = Tag("exit", 0, "none")
    /\ UNCHANGED <<clock, timers, to_submit, to_complete, req, token, ret, rt,
                   running, task, result>>
    /\ UNCHANGED <<life, ctx, op, cstep, ovars>>

\* exit's first loop: pop_first and complete with Shutdown until empty; then
\* the second loop starts with run_timers
ExitDrain ==
    /\ pc = "exit_drain"
    /\ IF timers = {}
       THEN /\ RunTimersEntry
            /\ step' = Tag("drained", 0, "none")
            /\ UNCHANGED <<timers, req, ret>>
       ELSE LET timer == First(timers) IN
            /\ timers' = timers \ {timer}
            /\ req' = TimerComplete(req, timer.request, "Shutdown", "exit")
            /\ pc' = "task"
            /\ ret' = "exit_drain"
            /\ step' = Tag("drain", timer.request, "Shutdown")
            /\ UNCHANGED rt
    /\ UNCHANGED <<clock, exiting, to_submit, to_complete, token, caller,
                   running, task, result, atExit>>
    /\ UNCHANGED <<life, ctx, op, cstep, ovars>>

\* exit's second loop: leave when the engine has no work, else park
ExitCheck ==
    /\ pc = "exit_check"
    /\ IF ~HasWork
       THEN /\ exiting' = FALSE
            /\ caller' = "none"
            /\ pc' = "idle"
            /\ step' = Tag("exit_return", 0, "none")
       ELSE /\ pc' = "park"
            /\ step' = Tag("exit_park", 0, "none")
            /\ UNCHANGED <<exiting, caller>>
    /\ UNCHANGED <<clock, timers, to_submit, to_complete, req, token, ret, rt,
                   running, task, result, atExit>>
    /\ UNCHANGED <<life, ctx, op, cstep, ovars>>

\* ------------------------------------------------------------------------
\* Context (src/async_runtime.rs): the interrupt protocol of one worker
\* ------------------------------------------------------------------------
\* op.state is the worker's position: "active" (running task code),
\* "blocked" (suspended inside Context::block_on) or "panicked" (an expect
\* failed).
\* op.tokenRes is what the registered cancel token returns when it is run,
\* op.invoked how often it has been run, op.cancelled whether it accepted
\* the cancellation, op.last the result the last operation completed with,
\* op.prevented whether an interrupt() was prevented since the worker last
\* went from no guard to one.
TokenResults == {"Ok", "NotFound"}

CTag(name, res) == [op |-> name, res |-> res]

\* Context::new
NewContext == [guards |-> 0, interrupted |-> FALSE, pending_interrupt |-> FALSE,
               cancel |-> "None"]

\* Context::interrupt, guards > 0: the fields after the call
InterruptPreventedDelivers(c) ==
    [c EXCEPT !.pending_interrupt = TRUE, !.interrupted = TRUE]

InterruptPrevented(c) == [c EXCEPT !.pending_interrupt = TRUE]

\* Context::interrupt, guards = 0: the fields after `interrupted = true` and
\* `cancel.take()`
InterruptTakeKeepsToken(c) == [c EXCEPT !.interrupted = TRUE]

InterruptTake(c) == [c EXCEPT !.interrupted = TRUE, !.cancel = "None"]

\* Context::interrupt, guards = 0: the value returned is the token's
InterruptReturnOk(res) == "Ok"

InterruptReturn(res) == res

\* Context::clear_interrupt
ClearInterrupt(c) == [c EXCEPT !.interrupted = FALSE, !.pending_interrupt = FALSE]

\* Context::interrupt_guard(count)
InterruptGuardEager(c, count) ==
    IF c.pending_interrupt
    THEN [c EXCEPT !.guards = c.guards + count, !.interrupted = TRUE,
                   !.pending_interrupt = FALSE]
    ELSE [c EXCEPT !.guards = c.guards + count]

InterruptGuard(c, count) ==
    LET guards == c.guards + count IN
    IF guards = 0 /\ c.pending_interrupt
    THEN [c EXCEPT !.guards = guards, !.interrupted = TRUE,
                   !.pending_interrupt = FALSE]
    ELSE [c EXCEPT !.guards = guards]

\* Context::block_on of a task that returned Pending: the closure over the
\* task's cancel token is stored, then the worker suspends
CtxBlockOn(res) ==
    /\ op.state = "active"
    /\ ctx' = [ctx EXCEPT !.cancel = "Some"]
    /\ op' = [op EXCEPT !.state = "blocked", !.tokenRes = res, !.invoked = 0,
                        !.cancelled = FALSE]
    /\ cstep' = CTag("block_on", "Pending")
    /\ UNCHANGED <<dvars, ovars>>

\* the request of the blocked operation is completed: `resume`.  Nothing
\* resets Context.cancel
CtxComplete ==
    /\ op.state = "blocked"
    /\ op' = [op EXCEPT !.state = "active",
                        !.last = IF op.cancelled THEN "Interrupted" ELSE "Ok"]
    /\ cstep' = CTag("complete", IF op.cancelled THEN "Interrupted" ELSE "Ok")
    /\ UNCHANGED ctx
    /\ UNCHANGED <<dvars, ovars>>

\* Context::interrupt, called by a JoinHandle's cancel or by Runtime::drop
\* while this worker is suspended in block_on
CtxInterrupt ==
    /\ op.state = "blocked"
    /\ IF ctx.guards > 0
       THEN /\ ctx' = InterruptPrevented(ctx)
            /\ cstep' = CTag("interrupt", "Other")
            /\ op' = [op EXCEPT !.prevented = TRUE]
       ELSE /\ ctx' = InterruptTake(ctx)
            /\ IF ctx.cancel = "None"
               THEN \* expect("Task interrupted while active")
                    /\ op' = [op EXCEPT !.state = "panicked"]
                    /\ cstep' = CTag("interrupt", "panic")
               ELSE /\ op' = [op EXCEPT !.invoked = Min(@ + 1, 2),
                                        !.cancelled = (op.tokenRes = "Ok"),
                                        !.taken = FALSE]
                    /\ cstep' = CTag("interrupt", InterruptReturn(op.tokenRes))
    /\ UNCHANGED <<dvars, ovars>>

\* interrupt_guard(): InterruptGuard::new calls interrupt_guard(1)
CtxGuardAcquire ==
    /\ op.state = "active"
    /\ ctx.guards < MaxGuards
    /\ ctx' = InterruptGuard(ctx, 1)
    /\ cstep' = CTag("guard_acquire", "none")
    /\ op' = [op EXCEPT !.prevented = IF ctx.guards = 0 THEN FALSE ELSE @]
    /\ UNCHANGED <<dvars, ovars>>

\* dropping an InterruptGuard calls interrupt_guard(-1)
CtxGuardRelease ==
    /\ op.state = "active"
    /\ ctx.guards > 0
    /\ ctx' = InterruptGuard(ctx, -1)
    /\ cstep' = CTag("guard_release",
                     IF ctx.pending_interrupt /\ ~ctx'.pending_interrupt
                     THEN "delivered" ELSE "none")
    /\ UNCHANGED op
    /\ UNCHANGED <<dvars, ovars>>

\* check_interrupt(): the checkpoint before an interruptible operation
CheckInterruptNever(c) == "Ok"

CheckInterrupt(c) == IF c.interrupted THEN "Interrupted" ELSE "Ok"

\* is_interrupted(): Context::interrupted
CtxIsInterrupted ==
    /\ op.state = "active"
    /\ cstep' = CTag("is_interrupted", IF ctx.interrupted THEN "true" ELSE "false")
    /\ UNCHANGED <<ctx, op>>
    /\ UNCHANGED <<dvars, ovars>>

\* check_interrupt(): an Interrupted error if Context::interrupted
CtxCheckInterrupt ==
    /\ op.state = "active"
    /\ cstep' = CTag("check_interrupt", CheckInterrupt(ctx))
    /\ UNCHANGED <<ctx, op>>
    /\ UNCHANGED <<dvars, ovars>>

\* take_interrupt(): read Context::interrupted, then Context::clear_interrupt
CtxTakeInterrupt ==
    /\ op.state = "active"
    /\ ctx' = ClearInterrupt(ctx)
    /\ cstep' = CTag("take_interrupt", IF ctx.interrupted THEN "true" ELSE "false")
    /\ op' = [op EXCEPT !.taken = IF ctx.interrupted THEN TRUE ELSE @]
    /\ UNCHANGED <<dvars, ovars>>

\* ops::timeout / async_engine_task! on a driver that is not exiting:
\* check_interrupt().await? (skipped by close, whose force is TRUE), then
\* block_on of the driver future, which registers it and suspends the worker
CtxOp(force, res) ==
    /\ op.state = "active"
    /\ IF ~force /\ CheckInterrupt(ctx) = "Interrupted"
       THEN /\ cstep' = CTag(IF force THEN "close" ELSE "op", "Interrupted")
            /\ UNCHANGED <<ctx, op>>
       ELSE /\ ctx' = [ctx EXCEPT !.cancel = "Some"]
            /\ op' = [op EXCEPT !.state = "blocked", !.tokenRes = res,
                                !.invoked = 0, !.cancelled = FALSE]
            /\ cstep' = CTag(IF force THEN "close" ELSE "op", "Pending")
    /\ UNCHANGED <<dvars, ovars>>

\* ------------------------------------------------------------------------
\* select (ops/select.rs): SelectData
\* ------------------------------------------------------------------------
Branches == {1, 2}

\* the values branch i can produce: a real value, or an Interrupted error
Value(i) == 10 * i + 1
Interrupted(i) == 10 * i + 2
BranchValues(i) == {Value(i), Interrupted(i)}

\* how a branch behaves when it is started or its cancel token is run:
\* it resolves inside the call with `val`, or later through its request
Behaviours(i) == [sync : BOOLEAN, val : BranchValues(i)]

None == 0

\* Select<O1, O2>; NoSelect stands for "nothing delivered"
SelectFirst(a, b) == [tag |-> "First", a |-> a, b |-> b]
SelectSecond(a, b) == [tag |-> "Second", a |-> a, b |-> b]
NoSelect == [tag |-> "none", a |-> None, b |-> None]

\* SelectData::new
NewSelectData == [cancel |-> [i \in Branches |-> "None"],
                  result |-> [i \in Branches |-> None],
                  request |-> "null", sync_done |-> FALSE]

NewSelectHistory ==
    [state |-> "new",                       \* new / Done / Pending / Completed / panicked / undefined
     start |-> [i \in Branches |-> "none"], \* how task i started: none / Done / Pending
     b |-> [i \in Branches |-> "idle"],     \* idle / pending / completed
     stale |-> FALSE,                       \* a completed branch's token was run
     first |-> 0,                           \* the branch whose request completed first
     val |-> [i \in Branches |-> None],     \* what branch i's request was completed with
     runs |-> [i \in Branches |-> 0],       \* times branch i's cancel token was run
     runBy |-> [i \in Branches |-> "none"], \* who ran it: select / complete / cancel
     outer |-> 0,                           \* times the outer request was completed
     out |-> NoSelect,                      \* the Select delivered (returned or completed)
     cancelled |-> FALSE,                   \* the select's own cancel token was run
     last |-> [op |-> "new", i |-> 0],      \* the last operation
     n |-> 1]                               \* selects made so far

\* complete_1 / complete_2: the callback stores the value
SelStore(s, i, v) ==
    [s EXCEPT !.d.result[i] = v, !.h.b[i] = "completed", !.h.val[i] = v,
              !.h.first = IF @ = 0 THEN i ELSE @]

\* the last branch to complete builds the result in reverse order
SelResultSwapped(d, i) ==
    IF i = 1 THEN SelectFirst(d.result[1], d.result[2])
    ELSE SelectSecond(d.result[2], d.result[1])

SelResult(d, i) ==
    IF i = 1 THEN SelectSecond(d.result[2], d.result[1])
    ELSE SelectFirst(d.result[1], d.result[2])

\* SelectData::complete, both results present: Request::complete(request)
SelDeliver(s, i) ==
    [s EXCEPT !.h.out = SelResult(s.d, i), !.h.outer = @ + 1,
              !.h.state = "Completed",
              !.d.result = [j \in Branches |-> None]]

\* cancel.take() found Some and the token is run
SelRunToken(s, o, who) ==
    [s EXCEPT !.d.cancel[o] = "None", !.h.runs[o] = @ + 1, !.h.runBy[o] = who,
              !.h.stale = @ \/ s.h.b[o] # "pending"]

\* SelectData::complete(is_first), called by branch i's callback after the
\* value was stored; m is the behaviour of the other branch's cancel token
SelComplete(s, i, m) ==
    LET o == 3 - i IN
    IF s.d.sync_done
    THEN [s EXCEPT !.d.sync_done = FALSE]
    ELSE IF s.d.result[1] = None \/ s.d.result[2] = None
    THEN IF s.d.cancel[o] = "None"
         THEN [s EXCEPT !.h.state = "panicked"]   \* unwrap() of None
         ELSE LET s1 == SelRunToken(s, o, "complete") IN
              IF m.sync
              THEN SelDeliver(SelStore(s1, o, m.val), o)
              ELSE s1
    ELSE SelDeliver(s, i)

SelState == [d |-> sel, h |-> selh]

SelSet(s, name, i) ==
    /\ sel' = s.d
    /\ selh' = [s.h EXCEPT !.last = [op |-> name, i |-> i]]
    /\ UNCHANGED notsel

\* select_sync: SelectData::new for the next select, once the previous one
\* has returned its result
SelectNew ==
    /\ selh.state \in {"Done", "Completed"}
    /\ selh.n < MaxSelects
    /\ sel' = NewSelectData
    /\ selh' = [NewSelectHistory EXCEPT !.n = selh.n + 1]
    /\ UNCHANGED notsel

\* a synchronously resolved first task ends select at once
SelFirstDoneStartsSecond(s, p1) ==
    [s EXCEPT !.h.state = "Done", !.h.start[1] = "Done", !.h.val[1] = p1.val,
              !.h.start[2] = "Pending", !.h.b[2] = "pending",
              !.h.out = SelectFirst(p1.val, None)]

SelFirstDone(s, p1) ==
    [s EXCEPT !.h.state = "Done", !.h.start[1] = "Done", !.h.val[1] = p1.val,
              !.h.out = SelectFirst(p1.val, None)]

\* the second task resolved synchronously while the first is pending:
\* the decision after the first task's cancel token has been run
SelSyncSecondAlwaysDone(s) ==
    [s EXCEPT !.h.state = "Done",
              !.h.out = SelectSecond(s.d.result[2], s.d.result[1]),
              !.d.result = [j \in Branches |-> None], !.d.sync_done = FALSE]

SelSyncSecond(s) ==
    IF ~s.d.sync_done
    THEN [s EXCEPT !.h.state = "Done",
                   !.h.out = SelectSecond(s.d.result[2], s.d.result[1]),
                   !.d.result = [j \in Branches |-> None]]
    ELSE [s EXCEPT !.d.sync_done = FALSE, !.d.request = "set",
                   !.h.state = "Pending"]

\* SelectData::select.  p1, p2: how the tasks start; m1: how the first
\* task's cancel token behaves; early: the first task's request is completed
\* while the second task is being started
Select(p1, p2, m1, early) ==
    /\ selh.state = "new"
    /\ IF p1.sync
       THEN SelSet(SelFirstDone(SelState, p1), "select", 0)
       ELSE LET s1 == [SelState EXCEPT !.d.cancel[1] = "Some",
                                       !.h.b[1] = "pending",
                                       !.h.start[1] = "Pending"]
            IN  IF early
                THEN SelSet(SelComplete(SelStore(s1, 1, m1.val), 1, m1),
                            "select", 0)
                ELSE IF ~p2.sync
                THEN SelSet([s1 EXCEPT !.d.cancel[2] = "Some",
                                       !.h.b[2] = "pending",
                                       !.h.start[2] = "Pending",
                                       !.d.request = "set",
                                       !.h.state = "Pending"], "select", 0)
                ELSE LET s2 == [s1 EXCEPT !.d.result[2] = p2.val,
                                          !.d.sync_done = TRUE,
                                          !.h.start[2] = "Done",
                                          !.h.val[2] = p2.val]
                         s3 == SelRunToken(s2, 1, "select")
                         s4 == IF m1.sync
                               THEN SelComplete(SelStore(s3, 1, m1.val), 1, m1)
                               ELSE s3
                     IN  SelSet(SelSyncSecond(s4), "select", 0)

\* branch i's request is completed with v: complete_1 / complete_2; m is how
\* the other branch's cancel token behaves if it is run
BranchComplete(i, v, m) ==
    /\ selh.state = "Pending"
    /\ selh.b[i] = "pending"
    /\ SelSet(SelComplete(SelStore(SelState, i, v), i, m), "complete", i)

\* one `self.cancel_i.take().map(|cancel| cancel.run())` of the select's own
\* cancel token; m: how token i behaves, mo: how the other token behaves
SelCancelOne(s, i, m, mo) ==
    IF s.d.cancel[i] = "Some"
    THEN LET t == SelRunToken(s, i, "cancel") IN
         IF m.sync /\ s.h.b[i] = "pending"
         THEN SelComplete(SelStore(t, i, m.val), i, mo)
         ELSE t
    ELSE s

\* the select's own cancel token (fn cancel in SelectData::select), run once
\* while select is pending.  If running the first token completed the outer
\* request, SelectData is gone when self.cancel_2 is read: the read finds
\* None, or (garbage) anything else
SelectCancel(m1, m2, garbage) ==
    /\ selh.state = "Pending"
    /\ ~selh.cancelled
    /\ LET s0 == [SelState EXCEPT !.h.cancelled = TRUE]
           s1 == SelCancelOne(s0, 1, m1, m2)
           s2 == IF s1.h.state = "Pending" THEN SelCancelOne(s1, 2, m2, m1)
                 ELSE IF s1.h.state = "Completed" /\ garbage
                 THEN [s1 EXCEPT !.h.state = "undefined"]
                 ELSE s1
       IN  SelSet(s2, "cancel", 0)

\* ------------------------------------------------------------------------
\* join (ops/join.rs): JoinData
\* ------------------------------------------------------------------------
\* Join<O1, O2>; NoJoin stands for "nothing delivered"
JoinOf(r1, r2) == [a |-> r1, b |-> r2]
NoJoin == JoinOf(None, None)

\* JoinData::new
NewJoinData == [cancel |-> [i \in Branches |-> "None"],
                result |-> [i \in Branches |-> None],
                request |-> "null"]

NewJoinHistory ==
    [state |-> "new",                       \* new / Done / Pending / Completed / undefined
     start |-> [i \in Branches |-> "none"], \* how task i started: none / Done / Pending
     b |-> [i \in Branches |-> "idle"],     \* idle / pending / completed
     val |-> [i \in Branches |-> None],     \* the result of branch i, once available
     outer |-> 0,                           \* times the outer request was completed
     out |-> NoJoin,                        \* the Join delivered (returned or completed)
     cancelled |-> FALSE,                   \* the join's own cancel token was run
     panicked |-> FALSE,                    \* that cancel token panicked
     stale |-> FALSE,                       \* a completed branch's token was run
     last |-> [op |-> "new", i |-> 0],      \* the last operation
     n |-> 1]                               \* joins made so far

JoinState == [d |-> jn, h |-> jnh]

JoinSet(s, name, i) ==
    /\ jn' = s.d
    /\ jnh' = [s.h EXCEPT !.last = [op |-> name, i |-> i]]
    /\ UNCHANGED notjn

\* join_sync: JoinData::new for the next join, once the previous one has
\* returned its result
JoinNew ==
    /\ jnh.state \in {"Done", "Completed"}
    /\ jnh.n < MaxJoins
    /\ jn' = NewJoinData
    /\ jnh' = [NewJoinHistory EXCEPT !.n = jnh.n + 1]
    /\ UNCHANGED notjn

\* check_complete's early return
JoinIncompleteFirstOnly(d) == d.result[1] = None

JoinIncomplete(d) == d.result[1] = None \/ d.result[2] = None

\* JoinData::check_complete
JoinCheckComplete(s) ==
    IF JoinIncomplete(s.d)
    THEN s
    ELSE [s EXCEPT !.h.out = JoinOf(s.d.result[1], s.d.result[2]),
                   !.h.outer = @ + 1, !.h.state = "Completed",
                   !.d.result = [j \in Branches |-> None]]

\* complete_1 / complete_2
JoinStore(s, i, v) ==
    JoinCheckComplete([s EXCEPT !.d.result[i] = v, !.h.b[i] = "completed",
                                !.h.val[i] = v])

\* task_i.run(): Pending stores the cancel token, Done the value
JoinStart(s, i, p) ==
    IF p.sync
    THEN [s EXCEPT !.d.result[i] = p.val, !.h.start[i] = "Done", !.h.val[i] = p.val]
    ELSE [s EXCEPT !.d.cancel[i] = "Some", !.h.start[i] = "Pending",
                   !.h.b[i] = "pending"]

\* JoinData::join.  p1, p2: how the tasks start; early: the first task's
\* request is completed with v while the second task is being started
Join(p1, p2, early, v) ==
    /\ jnh.state = "new"
    /\ early => ~p1.sync
    /\ LET s1 == JoinStart(JoinState, 1, p1)
           s2 == IF early THEN JoinStore(s1, 1, v) ELSE s1
       IN  IF p2.sync /\ s2.d.result[1] # None
           THEN JoinSet([s2 EXCEPT !.h.start[2] = "Done", !.h.val[2] = p2.val,
                                   !.h.out = JoinOf(s2.d.result[1], p2.val),
                                   !.d.result[1] = None,
                                   !.h.state = "Done"], "join", 0)
           ELSE JoinSet([JoinStart(s2, 2, p2) EXCEPT !.d.request = "set",
                                                     !.h.state = "Pending"],
                        "join", 0)

\* branch i's request is completed with v
JoinBranchComplete(i, v) ==
    /\ jnh.state = "Pending"
    /\ jnh.b[i] = "pending"
    /\ JoinSet(JoinStore(JoinState, i, v), "complete", i)

\* `self.cancel_i.take().unwrap().run()` of the join's own cancel token
JoinCancelOne(s, i, m) ==
    IF s.d.cancel[i] = "None"
    THEN [s EXCEPT !.h.panicked = TRUE]     \* unwrap() of None
    ELSE LET t == [s EXCEPT !.d.cancel[i] = "None",
                            !.h.stale = @ \/ s.h.b[i] # "pending"]
         IN  IF m.sync /\ s.h.b[i] = "pending" THEN JoinStore(t, i, m.val) ELSE t

\* the join's own cancel token (fn cancel in JoinData::join), run once while
\* join is pending.  A panic in the first half unwinds past the second.  If
\* running the first token completed the outer request, JoinData is gone
\* when self.cancel_2 is read: the read finds what was there, or (garbage)
\* anything else
JoinCancel(m1, m2, garbage) ==
    /\ jnh.state = "Pending"
    /\ ~jnh.cancelled
    /\ LET s0 == [JoinState EXCEPT !.h.cancelled = TRUE]
           s1 == JoinCancelOne(s0, 1, m1)
           s2 == IF s1.h.panicked THEN s1
                 ELSE IF s1.h.state = "Completed" /\ garbage
                 THEN [s1 EXCEPT !.h.state = "undefined"]
                 ELSE JoinCancelOne(s1, 2, m2)
       IN  JoinSet(s2, "cancel", 0)

\* ------------------------------------------------------------------------
\* spawn (ops/spawn.rs): Spawn and JoinHandle
\* ------------------------------------------------------------------------
\* Spawn::new
NewSpawn == [cancel |-> "None", waiter |-> "null", output |-> None, refs |-> 0]

NewSpawnHistory ==
    [alloc |-> "none",       \* the Box<Spawn>: none / live / freed
     frees |-> 0,            \* times it was freed
     uaf |-> FALSE,          \* it was used after being freed
     task |-> "none",        \* the spawned task: none / running / done
     tout |-> None,          \* the spawned task's output
     handle |-> "none",      \* the JoinHandle: none / live / awaiting / gone
     awaited |-> "no",       \* no / afterDone / beforeDone: when the await began
     suspended |-> FALSE,    \* the await suspended its worker
     yields |-> 0,           \* times the await produced an output
     yielded |-> None,       \* the output it produced
     stored |-> FALSE,       \* the output was stored in Spawn.output
     forwarded |-> FALSE,    \* the output was passed to the waiter
     interrupts |-> 0,       \* times the task's cancel token was run
     last |-> "new"]         \* the last operation on it

Spawned == 1..NSpawn

SpState(t) == [d |-> sp[t], h |-> sph[t]]

SpSet(t, s, name) ==
    /\ sp' = [sp EXCEPT ![t] = s.d]
    /\ sph' = [sph EXCEPT ![t] = [s.h EXCEPT !.last = name]]
    /\ UNCHANGED notsp

\* Spawn::dec_ref
DecRefKeeps(s) ==
    [s EXCEPT !.d.refs = @ - 1, !.h.uaf = @ \/ s.h.alloc # "live"]

DecRef(s) ==
    LET t == [s EXCEPT !.d.refs = @ - 1, !.h.uaf = @ \/ s.h.alloc # "live"] IN
    IF t.d.refs = 0
    THEN [t EXCEPT !.h.alloc = "freed", !.h.frees = @ + 1]
    ELSE t

\* Spawn::inc_ref
IncRef(s) == [s EXCEPT !.d.refs = @ + 1]

\* Spawn::run: the task is started; Pending keeps a reference for the task
SpawnRun(t, sync, v) ==
    /\ sph[t].task = "none"
    /\ LET s0 == [SpState(t) EXCEPT !.h.alloc = "live", !.h.handle = "live"]
           s1 == IF sync
                 THEN [s0 EXCEPT !.d.output = v, !.h.task = "done",
                                 !.h.tout = v, !.h.stored = TRUE]
                 ELSE IncRef([s0 EXCEPT !.d.cancel = "Some",
                                        !.h.task = "running"])
       IN  SpSet(t, IncRef(s1), "spawn")

\* spawn_complete's test for a registered waiter
WaiterIsNullAlways(d) == TRUE

WaiterIsNull(d) == d.waiter = "null"

\* Spawn::spawn_complete.  Completing the waiter resumes the awaiting
\* worker, which returns from JoinHandle::run and drops the handle
SpComplete(s, v) ==
    LET s0 == [s EXCEPT !.h.task = "done", !.h.tout = v]
        s1 == IF WaiterIsNull(s0.d)
              THEN [s0 EXCEPT !.d.output = v, !.h.stored = TRUE]
              ELSE DecRef([s0 EXCEPT !.h.forwarded = TRUE,
                                     !.h.yields = @ + 1, !.h.yielded = v,
                                     !.h.handle = "gone"])
    IN  DecRef(s1)

\* the spawned task's request is completed
SpawnComplete(t, v) ==
    /\ sph[t].task = "running"
    /\ SpSet(t, SpComplete(SpState(t), v), "complete")

\* JoinHandle::run (await): a stored output is taken and returned, the
\* handle being dropped on return; otherwise JoinTask registers the waiter
HandleAwait(t) ==
    /\ sph[t].handle = "live"
    /\ LET s0 == [SpState(t) EXCEPT
                     !.h.awaited = IF sph[t].task = "done" THEN "afterDone"
                                   ELSE "beforeDone"]
       IN  IF s0.d.output # None
           THEN SpSet(t, DecRef([s0 EXCEPT !.d.output = None,
                                        !.h.yields = @ + 1,
                                           !.h.yielded = s0.d.output,
                                           !.h.handle = "gone"]), "await")
           ELSE SpSet(t, [s0 EXCEPT !.d.waiter = "set",
                                    !.h.handle = "awaiting",
                                    !.h.suspended = TRUE], "await")

\* Drop for JoinHandle
HandleDrop(t) ==
    /\ sph[t].handle = "live"
    /\ SpSet(t, DecRef([SpState(t) EXCEPT !.h.handle = "gone"]), "drop")

\* JoinCancel::run -> Spawn::cancel, when the awaiting worker is interrupted:
\* the task's cancel token is run; the task may finish inside the call
SpawnCancel(t, sync, v) ==
    /\ sph[t].handle = "awaiting"
    /\ sp[t].cancel = "Some"
    /\ LET s0 == [SpState(t) EXCEPT !.d.cancel = "None",
                                    !.h.interrupts = @ + 1]
       IN  SpSet(t, IF sync THEN SpComplete(s0, v) ELSE s0, "cancel")

\* ------------------------------------------------------------------------
\* Runtime::drop and the worker list (runtime.rs, ops/branch.rs)
\* ------------------------------------------------------------------------
Workers == 1..NWorkers

\* a worker that has not been spawned yet
Unborn == [state |-> "unborn",      \* unborn / blocked / finished
           on |-> "none",           \* blocked on: notify / io / await
           cancel |-> "None",       \* Context.cancel
           interrupted |-> FALSE,   \* Context.interrupted
           swallow |-> 0,           \* interrupts it will still take and ignore
           spawns |-> FALSE,        \* it spawns a task each time it does so
           parent |-> 0,            \* the worker that spawned it (0: main task)
           child |-> 0]             \* the worker whose JoinHandle it awaits

\* spawn_entry: the worker is appended to Runtime.workers, then it runs
\* until it blocks
Born(by, on, sw, spawns) ==
    [Unborn EXCEPT !.state = "blocked", !.on = on, !.cancel = "Some",
                   !.swallow = sw, !.spawns = spawns, !.parent = by]

RdState == [r |-> rdrop, w |-> wk]

Remove(q, w) == SelectSeq(q, LAMBDA x : x # w)

NextUnborn(s) ==
    IF \E w \in Workers : s.w[w].state = "unborn"
    THEN CHOOSE w \in Workers :
            /\ s.w[w].state = "unborn"
            /\ \A u \in Workers : s.w[u].state = "unborn" => w <= u
    ELSE 0

\* spawn during teardown: the new task blocks on a notification
SpawnChild(s, by) ==
    LET c == NextUnborn(s) IN
    IF c = 0 THEN s
    ELSE [s EXCEPT !.w[c] = Born(by, "notify", 1, FALSE),
                   !.r.workers = Append(@, c)]

RECURSIVE Resume(_, _)
\* the worker's operation completed.  A worker with interrupts left to
\* swallow takes the interrupt, possibly spawns, and blocks again; otherwise
\* it runs to its end: PulseWorker::drop unlinks it, and the worker awaiting
\* its JoinHandle is resumed
Resume(s, w) ==
    IF s.w[w].swallow > 0
    THEN LET s1 == [s EXCEPT !.w[w].swallow = @ - 1,
                             !.w[w].interrupted = FALSE,
                             !.w[w].on = "notify",
                             !.w[w].child = 0,
                             !.w[w].cancel = "Some"]
         IN  IF s.w[w].spawns THEN SpawnChild(s1, w) ELSE s1
    ELSE LET s1 == [s EXCEPT !.w[w].state = "finished",
                             !.w[w].on = "none",
                             !.r.workers = Remove(@, w),
                             !.r.list = Remove(@, w)]
             p == s.w[w].parent
         IN  IF p # 0 /\ s.w[p].state = "blocked" /\ s.w[p].on = "await"
                /\ s.w[p].child = w
             THEN Resume(s1, p)
             ELSE s1

\* Context::interrupt's cancel.take().expect("Task interrupted while active")
InterruptExpects(c) == c = "None"

RECURSIVE Interrupt(_, _)
\* Context::interrupt on a blocked worker without guards.  The cancel closure
\* of a notification completes the operation inside the call; that of an I/O
\* operation submits a cancellation that completes later; that of an awaited
\* JoinHandle (JoinCancel -> Spawn::cancel) interrupts the spawned task
Interrupt(s, w) ==
    IF InterruptExpects(s.w[w].cancel)
    THEN [s EXCEPT !.r.dpc = "panicked", !.w[w].interrupted = TRUE]
    ELSE LET s1 == [s EXCEPT !.w[w].interrupted = TRUE,
                             !.w[w].cancel = "None"]
         IN  CASE s.w[w].on = "notify" -> Resume(s1, w)
               [] s.w[w].on = "io" -> s1
               [] OTHER -> Interrupt(s1, s.w[w].child)

RdSet(s) ==
    /\ rdrop' = s.r
    /\ wk' = s.w
    /\ UNCHANGED notrd

\* spawn(task) before the runtime is dropped, by the main task (0) or by a
\* worker woken from a notification, which then waits again
WorkerSpawn(by, on, sw, spawns) ==
    /\ rdrop.dpc = "running"
    /\ IF by = 0 THEN TRUE
       ELSE wk[by].state = "blocked" /\ wk[by].on = "notify"
    /\ NextUnborn(RdState) # 0
    /\ LET c == NextUnborn(RdState)
       IN  RdSet([RdState EXCEPT !.w[c] = Born(by, on, sw, spawns),
                                 !.r.workers = Append(@, c)])

\* a worker woken from a notification awaits the JoinHandle of a task it
\* spawned
WorkerAwait(p, c) ==
    /\ rdrop.dpc = "running"
    /\ wk[p].state = "blocked" /\ wk[p].on = "notify"
    /\ wk[c].state = "blocked" /\ wk[c].parent = p
    /\ RdSet([RdState EXCEPT !.w[p].on = "await", !.w[p].child = c])

\* Drop for Runtime begins
DropStart ==
    /\ rdrop.dpc = "running"
    /\ RdSet([RdState EXCEPT !.r.dpc = "loop"])

\* one pass of the outer loop: move the workers to a local list, stop if
\* there are none
DropLoop ==
    /\ rdrop.dpc = "loop"
    /\ RdSet([RdState EXCEPT
                 !.r.list = rdrop.workers,
                 !.r.workers = << >>,
                 !.r.start = {rdrop.workers[i] : i \in DOMAIN rdrop.workers},
                 !.r.hits = [w \in Workers |-> 0],
                 !.r.rounds = Min(@ + 1, MaxSwallow + 2),
                 !.r.dpc = IF rdrop.workers = << >> THEN "returned"
                           ELSE "interrupt"])

\* list.pop_front(): the worker is put back on Runtime.workers and
\* interrupted
DropInterrupt ==
    /\ rdrop.dpc = "interrupt"
    /\ rdrop.list # << >>
    /\ LET w == Head(rdrop.list)
           s0 == [RdState EXCEPT !.r.list = Tail(@),
                                 !.r.workers = Append(@, w),
                                 !.r.hits[w] = @ + 1]
           s1 == Interrupt(s0, w)
       IN  RdSet(IF s1.r.dpc = "interrupt" /\ s1.r.list = << >>
                 THEN [s1 EXCEPT !.r.dpc = "exit"]
                 ELSE s1)

RECURSIVE ExitAll(_, _)
\* Driver::exit returns when the engine has no work: every pending I/O
\* operation has completed and its worker has been resumed
ExitAll(s, S) ==
    IF S = {} THEN s
    ELSE LET w == CHOOSE x \in S : \A y \in S : x <= y IN
         ExitAll(IF s.w[w].state = "blocked" /\ s.w[w].on = "io"
                 THEN Resume(s, w) ELSE s,
                 S \ {w})

\* self.driver.exit()
DropExit ==
    /\ rdrop.dpc = "exit"
    /\ RdSet([ExitAll(RdState, Workers) EXCEPT !.r.dpc = "loop"])

\* ------------------------------------------------------------------------
\* The cross-thread wake channel (engine/uring/engine.rs)
\* ------------------------------------------------------------------------
Waiters == 1..NWaiters

\* with the waiters that sleep once only
AllWaiters == 1..(NWaiters + NMore)

\* a waiter's request: not waiting, waiting after prepare_wake, or pushed on
\* wake_queue by a thread; n counts its prepare_wake calls, silent tells
\* that the thread that pushed it last wrote nothing
NewWaiter == [st |-> "idle", n |-> 0, silent |-> FALSE]

\* IoUring::new: an empty wake_queue with its mutex free, the event fd's
\* counter at 0, no expected wake, no poll submitted; pc is process_wake's
\* position
NewWakeChannel ==
    [q |-> << >>, lock |-> "free", efd |-> 0, expected |-> 0, polls |-> 0,
     writers |-> 0, pc |-> "idle", batch |-> << >>, amount |-> 0, woken |-> 0,
     cold |-> 0]

\* poll_wake: one more poll of the event fd is owed by the ring
PollWake(c) == [c EXCEPT !.polls = @ + 1]

\* `expected_wakes.update(|count| count + 1) == 1`, on the updated count
FirstExpectedAlways(count) == TRUE

FirstExpected(count) == count = 1

\* prepare_wake, on the runtime thread, by a task about to sleep: the first
\* expected wake submits the poll
PrepareWake(w) ==
    /\ wt[w].st = "idle"
    /\ wt[w].n < MaxWakes
    /\ wch.pc \in {"idle", "loop", "complete"}
    /\ LET c == [wch EXCEPT !.expected = @ + 1]
       IN  wch' = IF FirstExpected(c.expected) THEN PollWake(c) ELSE c
    /\ wt' = [wt EXCEPT ![w].st = "waiting", ![w].n = @ + 1]
    /\ UNCHANGED notwake

\* let wake = queue.is_empty()
WakeNeededNever(q) == FALSE

WakeNeeded(q) == q = << >>

\* `if wake { self.event_fd.write(1)?; }`: n threads are about to write
WakeWritersAlways(wake, n) == n + 1

WakeWriters(wake, n) == IF wake THEN n + 1 ELSE n

\* wake, on any thread, up to the release of the lock: the request is pushed
\* and the thread remembers whether the queue was empty
Wake(w) ==
    /\ wt[w].st = "waiting"
    /\ wch.lock = "free"
    /\ LET wake == WakeNeeded(wch.q)
       IN  /\ wch' = [wch EXCEPT !.q = Append(@, w),
                                 !.writers = WakeWriters(wake, @)]
           /\ wt' = [wt EXCEPT ![w].st = "queued", ![w].silent = ~wake]
    /\ UNCHANGED notwake

\* wake, after the lock: a thread that found the queue empty writes 1
WakeWrite ==
    /\ wch.writers > 0
    /\ wch' = [wch EXCEPT !.writers = @ - 1, !.efd = @ + 1]
    /\ UNCHANGED <<wt, notwake>>

\* the poll completes and process_wake is called: with In when the event
\* fd's counter is not 0, and then the loop starts; with other flags
\* (process_wake_cold) the poll is submitted again
ProcessWake ==
    /\ wch.pc = "idle"
    /\ wch.polls > 0
    /\ \/ /\ wch.efd > 0
          /\ wch' = [wch EXCEPT !.polls = @ - 1, !.pc = "loop", !.woken = 0]
       \/ /\ wch.cold < MaxCold
          /\ wch' = PollWake([wch EXCEPT !.polls = @ - 1, !.cold = @ + 1])
    /\ UNCHANGED <<wt, notwake>>

\* one turn of process_wake's loop starts: wake_queue.lock()
ProcessWakeLock ==
    /\ wch.pc = "loop"
    /\ wch.lock = "free"
    /\ wch' = [wch EXCEPT !.lock = "service", !.pc = "locked"]
    /\ UNCHANGED <<wt, notwake>>

\* drop(queue), before the requests taken are completed
QueueDropped == "free"

\* let amount = queue.len().min(MAX_RESUME)
TakeAmountAll(len) == len

TakeAmount(len) == Min(len, MAX_RESUME)

\* the turn with the lock held: an empty queue reads the event fd, which
\* clears its counter, and leaves the loop (the event fd does not block:
\* reading a counter of 0 fails and the process aborts); otherwise up to
\* MAX_RESUME requests are taken from the front and the lock is dropped
ProcessWakeTake ==
    /\ wch.pc = "locked"
    /\ IF wch.q = << >>
       THEN wch' = [wch EXCEPT !.efd = 0, !.lock = "free",
                               !.pc = IF wch.efd = 0 THEN "aborted" ELSE "end"]
       ELSE LET amount == TakeAmount(Len(wch.q))
            IN  wch' = [wch EXCEPT !.batch = SubSeq(wch.q, 1, amount),
                                   !.q = SubSeq(wch.q, amount + 1, Len(wch.q)),
                                   !.amount = amount,
                                   !.lock = QueueDropped,
                                   !.pc = "complete"]
    /\ UNCHANGED <<wt, notwake>>

\* Request::complete of one taken request, without the lock; after the last
\* one woken grows by the amount taken
ProcessWakeComplete ==
    /\ wch.pc = "complete"
    /\ LET w == Head(wch.batch)
           last == Len(wch.batch) = 1
       IN  /\ wt' = [wt EXCEPT ![w].st = "idle"]
           /\ wch' = [wch EXCEPT !.batch = Tail(@),
                                 !.woken = IF last THEN @ + wch.amount ELSE @,
                                 !.amount = IF last THEN 0 ELSE @,
                                 !.pc = IF last THEN "loop" ELSE @]
    /\ UNCHANGED notwake

\* after the loop: expected_wakes drops by the number woken, and the poll
\* is submitted again while a wake is still expected
ProcessWakeEnd ==
    /\ wch.pc = "end"
    /\ LET c == [wch EXCEPT !.expected = @ - wch.woken, !.woken = 0,
                            !.pc = "idle"]
       IN  wch' = IF c.expected # 0 THEN PollWake(c) ELSE c
    /\ UNCHANGED <<wt, notwake>>

\* ------------------------------------------------------------------------
\* Driver::timeout's expiry at the width of a u64 (driver.rs)
\* ------------------------------------------------------------------------
Times == 0..U64Max

\* u64::checked_add: None (-1 here) when the sum does not fit
CheckedAdd(a, b) == IF a + b > U64Max THEN -1 ELSE a + b

NoTimeoutCall ==
    [state |-> "new", arg |-> 0, now |-> 0, abs |-> FALSE, expire |-> 0,
     queued |-> FALSE]

\* Driver::timeout past check_exiting, called with `expire` and the Abs flag
\* while nanotime() reads `now`: the sum of a relative timeout is checked
\* and its overflow panics ("Timeout overflow"); else the timer is queued
TimeoutExpire(expire, now, abs) ==
    /\ tmo.state = "new"
    /\ LET sum == IF abs THEN expire ELSE CheckedAdd(expire, now)
       IN  tmo' = IF sum = -1
                  THEN [state |-> "panicked", arg |-> expire, now |-> now,
                        abs |-> abs, expire |-> 0, queued |-> FALSE]
                  ELSE [state |-> "Pending", arg |-> expire, now |-> now,
                        abs |-> abs, expire |-> sum, queued |-> TRUE]
    /\ UNCHANGED nottmo

\* ------------------------------------------------------------------------
\* Interval (interval.rs)
\* ------------------------------------------------------------------------
MissedTickBehavior == {"Burst", "Delay", "Skip"}

\* no Interval yet; now is the last reading of the clock, and prev, at and
\* first tell the last call of next: self.expire on entry, nanotime(), and
\* whether it was the call that found expire = 0
NoInterval ==
    [state |-> "none", expire |-> 0, delay |-> 0, behavior |-> "Burst",
     now |-> 0, prev |-> 0, at |-> 0, first |-> FALSE]

\* Interval::new and set_missed_tick_behavior
IntervalNew(delay, behavior) ==
    /\ iv.state = "none"
    /\ iv' = [iv EXCEPT !.state = "new", !.expire = 0, !.delay = delay,
                        !.behavior = behavior]
    /\ UNCHANGED notiv

\* let align = (now - self.expire) % self.delay
SkipAlignNone(now, expire, delay) == 0

SkipAlign(now, expire, delay) == (now - expire) % delay

\* the Skip arm of next: -1 stands for the panic of an unwrap on None
SkipNext(expire, delay, now) ==
    LET next == CheckedAdd(expire, delay)
    IN  IF next = -1 THEN -1
        ELSE IF now > next
        THEN LET late == CheckedAdd(now, delay)
             IN  IF late = -1 THEN -1
                 ELSE late - SkipAlign(now, expire, delay)
        ELSE next

\* the match on missed_tick_behavior, for self.expire already replaced by
\* now when it was 0
NextExpire(behavior, expire, delay, now) ==
    CASE behavior = "Burst" -> CheckedAdd(expire, delay)
      [] behavior = "Delay" -> CheckedAdd(now, delay)
      [] behavior = "Skip" -> SkipNext(expire, delay, now)

\* Interval::next, called when nanotime() reads `now`; a new expiry later
\* than now is waited for with timeout(expire, Abs)
IntervalNext(now) ==
    /\ iv.state \in {"new", "ready"}
    /\ now >= iv.now
    /\ IF iv.delay = 0
       THEN iv' = [iv EXCEPT !.state = "ready", !.now = now, !.at = now,
                             !.prev = iv.expire, !.first = FALSE]
       ELSE LET first == iv.expire = 0
                expire == IF first THEN now ELSE iv.expire
                next == NextExpire(iv.behavior, expire, iv.delay, now)
            IN  iv' = IF next = -1
                      THEN [iv EXCEPT !.state = "panicked", !.now = now,
                                      !.at = now, !.prev = iv.expire,
                                      !.expire = expire, !.first = first]
                      ELSE [iv EXCEPT !.state = "ready", !.now = now,
                                      !.at = now, !.prev = iv.expire,
                                      !.expire = next, !.first = first]
    /\ UNCHANGED notiv

\* ------------------------------------------------------------------------
\* Completion dispatch: IoUring::run_events (engine/uring/engine.rs)
\* ------------------------------------------------------------------------
Positions == 0..(PosMod - 1)

\* u32::wrapping_add and wrapping_sub at the modelled width
WrapAdd(a, b) == (a + b) % PosMod

WrapSub(a, b) == (a - b + PosMod) % PosMod

\* completion.read(index & mask): the user_data of the entry in that slot
EntryAt(ring, index) == ring[index % CqEntries]

\* the ring after setup: khead = ktail = 0 and no entry written; to_complete
\* is 0; pc, head and tail are run_events' position and locals; history:
\* start is the range its last pass was given, done the user_data values
\* whose requests it completed, in order, and at the khead that was
\* published when each of these completions was invoked
NewCompletionRing ==
    [khead |-> 0, ktail |-> 0, ring |-> [i \in 0..(CqEntries - 1) |-> -1],
     to_complete |-> 0, pc |-> "idle", head |-> 0, tail |-> 0,
     start |-> [head |-> 0, tail |-> 0], done |-> << >>, at |-> << >>]

\* enter: one operation is handed to the kernel and a completion is owed
\* (at most as many as the ring has entries, so that it never overflows)
CqEnter ==
    /\ cq.pc \in {"idle", "loop"}
    /\ cq.to_complete + WrapSub(cq.start.tail, cq.khead) < CqEntries
    /\ cq' = [cq EXCEPT !.to_complete = @ + 1]
    /\ UNCHANGED notcq

\* the kernel posts the completion of an operation it was handed: it writes
\* the entry at ktail, whose user_data is the request (named here by the
\* position), and advances ktail; it can do so at any time
KernelPost ==
    /\ WrapSub(cq.ktail, cq.start.tail) < cq.to_complete
    /\ WrapSub(cq.ktail, cq.khead) < CqEntries
    /\ cq' = [cq EXCEPT !.ring[cq.ktail % CqEntries] = cq.ktail,
                        !.ktail = WrapAdd(@, 1)]
    /\ UNCHANGED notcq

\* tail = tail.wrapping_sub(1): the last entry is kept out of the loop
LoopTailFull(tail) == tail

LoopTail(tail) == WrapSub(tail, 1)

\* complete(tail, None): the index of the entry completed before the loop
PreLoopIndexBefore(tail) == WrapSub(tail, 1)

PreLoopIndex(tail) == tail

\* run_events on the ring just read (work: submit_and_wait ends with
\* read_ring): nothing for an empty range; else to_complete drops by the
\* count and the last entry's request is completed, khead left as it is
RunEvents ==
    /\ cq.pc = "idle"
    /\ LET head == cq.khead
           tail == cq.ktail
           count == WrapSub(tail, head)
           last == LoopTail(tail)
       IN  IF count = 0
           THEN cq' = [cq EXCEPT !.start = [head |-> head, tail |-> tail],
                                 !.done = << >>,
                                 !.at = << >>]
           ELSE cq' = [cq EXCEPT !.start = [head |-> head, tail |-> tail],
                                 !.to_complete = @ - count,
                                 !.head = head,
                                 !.tail = last,
                                 !.done = <<EntryAt(cq.ring, PreLoopIndex(last))>>,
                                 !.at = <<cq.khead>>,
                                 !.pc = "loop"]
    /\ UNCHANGED notcq

\* `*head = head.wrapping_add(1); khead.store(*head, Release)` in the
\* closure, before Request::complete: the head a callback of the loop finds
HeadAtCallbackUnmoved(head) == head

HeadAtCallback(head) == WrapAdd(head, 1)

\* `while head != tail { complete(head, Some(&mut head)) }`: the entry is
\* read, khead is published one further, then the request is completed;
\* after the loop khead is published past the entry completed first
RunEventsLoop ==
    /\ cq.pc = "loop"
    /\ IF cq.head # cq.tail
       THEN cq' = [cq EXCEPT !.head = WrapAdd(@, 1),
                             !.khead = HeadAtCallback(cq.head),
                             !.done = Append(@, EntryAt(cq.ring, cq.head)),
                             !.at = Append(@, HeadAtCallback(cq.head))]
       ELSE cq' = [cq EXCEPT !.khead = WrapAdd(cq.head, 1),
                             !.pc = "idle"]
    /\ UNCHANGED notcq

\* ------------------------------------------------------------------------
\* IoUring: the submission ring, enter and the in-flight counters
\* ------------------------------------------------------------------------
\* the operations started on the engine, named by their request's address
SqOps == 1..MaxStart

NoEntry == [op |-> "none", user_data |-> NO_OP, addr |-> 0]

\* start_async: `op.user_data = request.addr()`
IoEntry(r) == [op |-> "io", user_data |-> r, addr |-> 0]

\* cancel: `Op::cancel(0)` with `op.addr.addr = request.addr()`, started
\* with the no-op request
CancelEntryOwnRequest(r) == [op |-> "cancel", user_data |-> r, addr |-> r]

CancelEntry(r) == [op |-> "cancel", user_data |-> NO_OP, addr |-> r]

\* what one call of io_uring_enter can return: with Ok the number of
\* entries the kernel accepted, or an error, which accepts none
EnterResults(kind, left) == IF kind = "Ok" THEN 0..left ELSE {0}

\* the engine after IoUring::new: both counters 0, the ring empty. pc is
\* the engine's position (new, idle, enter: inside enter's loop, pass:
\* inside run_events, aborted: expect_nounwind ended the process, drained:
\* Driver::exit found no work and returned); by and
\* back are enter's caller and where it returns to; left is enter's local
\* to_submit; kernel holds the entries the kernel accepted and has not
\* completed, cqes the completion entries it posted, in ring order (each
\* written as the submission entry it completes), pass those of the
\* running pass whose requests are still to be completed. history: taken
\* (the entries the kernel read, in order), asked (to_submit when enter
\* began), ret and last (enter's return value and the last result it got,
\* with Time, Intr and Busy written "soft"),
\* started, cancelled, dispatched and completed (per request, the number of
\* times Request::complete was called for it)
NewIoUring ==
    [pc |-> "new", submit_all |-> FALSE, by |-> "none", back |-> "idle",
     tail |-> 0, ktail |-> 0, khead |-> 0,
     entries |-> [i \in 0..(SqEntries - 1) |-> NoEntry],
     to_submit |-> 0, to_complete |-> 0, left |-> 0,
     kernel |-> {}, cqes |-> << >>, pass |-> << >>,
     taken |-> << >>, asked |-> 0, ret |-> "none",
     last |-> "none",
     started |-> 0, cancelled |-> {}, dispatched |-> 0,
     completed |-> [r \in SqOps |-> 0]]

\* create_io_uring: the kernel supports SUBMIT_ALL or does not
SqSetup(submit_all) ==
    /\ sq.pc = "new"
    /\ sq' = [sq EXCEPT !.pc = "idle", !.submit_all = submit_all]
    /\ UNCHANGED notsq

\* enter, up to its loop: sync publishes the tail, to_submit is replaced by
\* 0 and counted into to_complete
EnterBegin(s, by, back) ==
    [s EXCEPT !.ktail = s.tail,
              !.left = s.to_submit,
              !.asked = s.to_submit,
              !.to_submit = 0,
              !.to_complete = @ + s.to_submit,
              !.ret = "none",
              !.last = "none",
              !.pc = "enter", !.by = by, !.back = back]

\* IoUring::push: `if likely(to_submit < capacity) { return; }` else flush
FlushNeededLate(count) == count > SqEntries

FlushNeeded(count) == ~(count < SqEntries)

\* SubmissionQueue::push and IoUring::push: the entry is written at
\* tail & mask, the tail and to_submit advance, and at capacity push_flush
\* enters the kernel
PushEntry(s, e) ==
    LET w == [s EXCEPT !.entries[s.tail % SqEntries] = e,
                       !.tail = @ + 1,
                       !.to_submit = @ + 1]
    IN  IF FlushNeeded(w.to_submit) THEN EnterBegin(w, "push", s.pc) ELSE w

\* an engine operation is started (engine_task: start_async returns None,
\* the future is Pending with a cancel token); code that runs between
\* passes or in a completion's callback starts it
SqStartAsync(r) ==
    /\ sq.pc \in {"idle", "pass"}
    /\ r = sq.started + 1
    /\ sq' = PushEntry([sq EXCEPT !.started = r], IoEntry(r))
    /\ UNCHANGED notsq

\* the cancel token of a pending operation is run: IoUring::cancel
SqCancel(r) ==
    /\ sq.pc \in {"idle", "pass"}
    /\ r <= sq.started
    /\ sq.completed[r] = 0
    /\ r \notin sq.cancelled
    /\ Cardinality(sq.cancelled) < MaxCancels
    /\ sq' = PushEntry([sq EXCEPT !.cancelled = @ \cup {r}], CancelEntry(r))
    /\ UNCHANGED notsq

\* `OsError::Time | OsError::Intr | OsError::Busy if to_submit == 0`
BenignErrorNever(kind, left) == FALSE

BenignError(kind, left) == kind \in {"Time", "Intr", "Busy"} /\ left = 0

\* `if likely(!self.features.setup_flag_supported(SetupFlag::SubmitAll))
\* { continue; }` after a partial submit
RetryPartialNever(submit_all) == FALSE

RetryPartial(submit_all) == ~submit_all

\* one turn of enter's loop on the result of io_uring_enter: what is left
\* to submit, whether the loop goes round again, and what enter returns
EnterOutcome(left, submit_all, res) ==
    IF res.kind = "Ok"
    THEN LET rem == left - res.n
         IN  IF rem = 0
             THEN [left |-> 0, again |-> FALSE, ret |-> "Ok"]
             ELSE IF RetryPartial(submit_all)
                  THEN [left |-> rem, again |-> TRUE, ret |-> "none"]
                  ELSE [left |-> rem, again |-> FALSE, ret |-> "OutOfMemory"]
    ELSE IF BenignError(res.kind, left)
         THEN [left |-> left, again |-> FALSE, ret |-> "Ok"]
         ELSE IF res.kind = "Again"
              THEN [left |-> left, again |-> FALSE, ret |-> "OutOfMemory"]
              ELSE [left |-> left, again |-> FALSE, ret |-> "Os"]

\* run_events: `to_complete.update(|complete| complete - count)`
PassCountNone(cqes) == 0

PassCount(cqes) == Len(cqes)

\* Request::complete on the user_data of a completion entry; the no-op
\* request's callback does nothing
CompleteEntry(s, e) ==
    [s EXCEPT !.dispatched = @ + 1,
              !.completed = IF e.user_data = NO_OP THEN @
                            ELSE [@ EXCEPT ![e.user_data] = @ + 1]]

\* run_events on the ring read after enter: nothing for an empty range;
\* else to_complete drops by the count and the request of the last entry
\* is completed, the others being left to the loop
RunEventsBegin(s) ==
    IF s.cqes = << >>
    THEN [s EXCEPT !.pc = "idle"]
    ELSE CompleteEntry([s EXCEPT !.to_complete = @ - PassCount(s.cqes),
                                 !.pass = SubSeq(s.cqes, 1, Len(s.cqes) - 1),
                                 !.cqes = << >>,
                                 !.pc = "pass"],
                       s.cqes[Len(s.cqes)])

ResultClass(kind) == IF kind \in {"Time", "Intr", "Busy"} THEN "soft" ELSE kind

\* io_uring_enter returns inside enter's loop. The kernel read the entries
\* it accepted from the ring at its head. enter goes round again, or
\* returns: to push_flush, which ends the process on an error, or to
\* submit_and_wait, whose error ends the process in park and after which
\* work runs the completions
AfterEnterCall(s, res) ==
    LET out == EnterOutcome(s.left, s.submit_all, res)
        got == [i \in 1..res.n |-> s.entries[(s.khead + i - 1) % SqEntries]]
        k == [s EXCEPT !.khead = @ + res.n,
                       !.kernel = @ \cup {got[i] : i \in 1..res.n},
                       !.taken = @ \o got,
                       !.left = out.left,
                       !.ret = out.ret,
                       !.last = ResultClass(res.kind)]
    IN  IF out.again
        THEN k
        ELSE IF out.ret # "Ok"
             THEN [k EXCEPT !.pc = "aborted"]
             ELSE IF s.by = "push"
                  THEN [k EXCEPT !.pc = k.back]
                  ELSE RunEventsBegin(k)

SqEnterCall(res) ==
    /\ sq.pc = "enter"
    /\ res.n \in EnterResults(res.kind, sq.left)
    /\ sq' = AfterEnterCall(sq, res)
    /\ UNCHANGED notsq

\* Engine::work between passes: submit_and_wait returns the ring at once
\* when nothing is to submit and completions are there, or nothing is to
\* wait for; else it enters the kernel
SqWork(wait, needs_enter) ==
    /\ sq.pc = "idle"
    /\ IF sq.to_submit = 0 /\ (sq.cqes # << >> \/ (~needs_enter /\ ~wait))
       THEN sq' = RunEventsBegin(sq)
       ELSE sq' = EnterBegin(sq, "work", "idle")
    /\ UNCHANGED notsq

\* the kernel completes an operation it accepted and posts its entry, whose
\* user_data is the one the submission entry carried
SqKernelPost ==
    /\ \E e \in sq.kernel :
          sq' = [sq EXCEPT !.kernel = @ \ {e}, !.cqes = Append(@, e)]
    /\ UNCHANGED notsq

\* run_events' loop completes the request of the next entry of the pass
SqCallback ==
    /\ sq.pc = "pass"
    /\ sq.pass # << >>
    /\ sq' = CompleteEntry([sq EXCEPT !.pass = Tail(@)], Head(sq.pass))
    /\ UNCHANGED notsq

\* run_events returns when the last callback has
SqPassEnd ==
    /\ sq.pc = "pass"
    /\ sq.pass = << >>
    /\ sq' = [sq EXCEPT !.pc = "idle"]
    /\ UNCHANGED notsq

\* IoUring::has_work
EngineHasWork(s) == s.to_complete # 0 \/ s.to_submit # 0

\* Driver::exit's second loop between two parks: `if !has_work() { break; }`
\* ends the drain (each park is a call of work)
SqExitDrained ==
    /\ sq.pc = "idle"
    /\ ~EngineHasWork(sq)
    /\ sq' = [sq EXCEPT !.pc = "drained"]
    /\ UNCHANGED notsq

\* ------------------------------------------------------------------------
\* Specifications
\* ------------------------------------------------------------------------
CtxInit ==
    /\ ctx = NewContext
    /\ op = [state |-> "active", tokenRes |-> "Ok", invoked |-> 0,
             cancelled |-> FALSE, last |-> "none", prevented |-> FALSE,
             taken |-> FALSE]
    /\ cstep = CTag("new", "none")

SelInit ==
    /\ sel = NewSelectData
    /\ selh = NewSelectHistory

JoinInit ==
    /\ jn = NewJoinData
    /\ jnh = NewJoinHistory

SpawnInit ==
    /\ sp = [t \in Spawned |-> NewSpawn]
    /\ sph = [t \in Spawned |-> NewSpawnHistory]

RdInit ==
    /\ rdrop = [dpc |-> "running", workers |-> << >>, list |-> << >>,
                start |-> {}, hits |-> [w \in Workers |-> 0], rounds |-> 0]
    /\ wk = [w \in Workers |-> Unborn]

WakeInit ==
    /\ wch = NewWakeChannel
    /\ wt = [w \in AllWaiters |-> NewWaiter]

TimeoutInit == tmo = NoTimeoutCall

IntervalInit == iv = NoInterval

CqInit == cq = NewCompletionRing

SqInit == sq = NewIoUring

Init ==
    /\ clock = 0
    /\ timers = {}
    /\ exiting = FALSE
    /\ to_submit = 0
    /\ to_complete = 0
    /\ req = [r \in Requests |-> IdleReq]
    /\ token = [r \in Requests |-> "none"]
    /\ pc = "idle"
    /\ ret = "none"
    /\ caller = "none"
    /\ rt = [now |-> 0, ran |-> FALSE, timeout |-> OneHour]
    /\ running = FALSE
    /\ task = [done |-> FALSE, output |-> 0]
    /\ result = [returned |-> FALSE, value |-> 0]
    /\ atExit = {}
    /\ step = Tag("new", 0, "none")
    /\ life = [runs |-> 0, rounds |-> 0]
    /\ CtxInit
    /\ SelInit
    /\ JoinInit
    /\ SpawnInit
    /\ RdInit
    /\ WakeInit
    /\ TimeoutInit
    /\ IntervalInit
    /\ CqInit
    /\ SqInit

Next ==
    \/ Tick
    \/ RunTimersLoop
    \/ \E r \in Requests, e \in 0..MaxDelay, abs \in BOOLEAN : DriverTimeout(r, e, abs)
    \/ \E r \in Requests : CancelTimer(r)
    \/ \E force \in BOOLEAN, intr \in BOOLEAN, sync \in BOOLEAN : IoOp(force, intr, sync)
    \/ \E v \in Outputs : TaskFinish(v)
    \/ TaskSuspend
    \/ Park
    \/ BlockOn
    \/ BlockOnBlock
    \/ BlockWhileCheck
    \/ AfterPark
    \/ Drop
    \/ ExitStart
    \/ ExitDrain
    \/ ExitCheck

Spec == Init /\ [][Next]_vars

\* the driver with tasks that also call yield_now
YieldNext ==
    \/ Next
    \/ \E r \in Requests, intr \in BOOLEAN : YieldNow(r, intr)

YieldSpec == Init /\ [][YieldNext]_vars

CtxNext ==
    \/ \E res \in TokenResults : CtxBlockOn(res)
    \/ CtxComplete
    \/ CtxInterrupt
    \/ CtxGuardAcquire
    \/ CtxGuardRelease
    \/ CtxIsInterrupted
    \/ CtxCheckInterrupt
    \/ CtxTakeInterrupt
    \/ \E force \in BOOLEAN, res \in TokenResults : CtxOp(force, res)

CtxSpec == Init /\ [][CtxNext]_vars

SelNext ==
    \/ \E p1 \in Behaviours(1), p2 \in Behaviours(2), m1 \in Behaviours(1),
          early \in BOOLEAN : Select(p1, p2, m1, early)
    \/ \E i \in Branches : \E v \in BranchValues(i), m \in Behaviours(3 - i) :
          BranchComplete(i, v, m)
    \/ \E m1 \in Behaviours(1), m2 \in Behaviours(2), garbage \in BOOLEAN :
          SelectCancel(m1, m2, garbage)
    \/ SelectNew

SelSpec == Init /\ [][SelNext]_vars

JoinNext ==
    \/ \E p1 \in Behaviours(1), p2 \in Behaviours(2), early \in BOOLEAN,
          v \in BranchValues(1) : Join(p1, p2, early, v)
    \/ \E i \in Branches : \E v \in BranchValues(i) : JoinBranchComplete(i, v)
    \/ \E m1 \in Behaviours(1), m2 \in Behaviours(2), garbage \in BOOLEAN :
          JoinCancel(m1, m2, garbage)
    \/ JoinNew

JoinSpec == Init /\ [][JoinNext]_vars

SpawnNext ==
    \/ \E t \in Spawned, sync \in BOOLEAN, v \in Outputs : SpawnRun(t, sync, v)
    \/ \E t \in Spawned, v \in Outputs : SpawnComplete(t, v)
    \/ \E t \in Spawned : HandleAwait(t)
    \/ \E t \in Spawned : HandleDrop(t)
    \/ \E t \in Spawned, sync \in BOOLEAN, v \in Outputs : SpawnCancel(t, sync, v)

SpawnSpec == Init /\ [][SpawnNext]_vars

RdNext ==
    \/ \E by \in {0} \cup Workers, on \in {"notify", "io"},
          sw \in 0..MaxSwallow, spawns \in BOOLEAN : WorkerSpawn(by, on, sw, spawns)
    \/ \E p \in Workers, c \in Workers : WorkerAwait(p, c)
    \/ DropStart
    \/ DropLoop
    \/ DropInterrupt
    \/ DropExit

RdSpec == Init /\ [][RdNext]_vars

WakeNext ==
    \/ \E w \in Waiters : PrepareWake(w)
    \/ \E w \in Waiters : Wake(w)
    \/ WakeWrite
    \/ ProcessWake
    \/ ProcessWakeLock
    \/ ProcessWakeTake
    \/ ProcessWakeComplete
    \/ ProcessWakeEnd

\* a thread that called wake goes on to its write, and the runtime thread
\* keeps running its event loop, so a completed poll is processed and
\* process_wake runs to its end; a waker is called once for a prepared wake
WakeSpec ==
    /\ Init /\ [][WakeNext]_vars
    /\ \A w \in Waiters : WF_vars(Wake(w))
    /\ WF_vars(WakeWrite)
    /\ WF_vars(ProcessWake)
    /\ WF_vars(ProcessWakeLock)
    /\ WF_vars(ProcessWakeTake)
    /\ WF_vars(ProcessWakeComplete)
    /\ WF_vars(ProcessWakeEnd)

TimeoutNext ==
    \E expire \in Times, now \in Times, abs \in BOOLEAN :
        TimeoutExpire(expire, now, abs)

TimeoutSpec == Init /\ [][TimeoutNext]_vars

IntervalNextStep ==
    \/ \E delay \in Times, behavior \in MissedTickBehavior :
          IntervalNew(delay, behavior)
    \/ \E now \in Times : IntervalNext(now)

IntervalSpec == Init /\ [][IntervalNextStep]_vars

\* the wake channel with more waiters than process_wake takes at once: the
\* further waiters sleep once each, one after the other
PrepareWakeOnce(w) ==
    /\ wt[w].n = 0
    /\ \A v \in AllWaiters : v < w => wt[v].n > 0
    /\ PrepareWake(w)

DrainNext ==
    \/ \E w \in AllWaiters : PrepareWakeOnce(w)
    \/ \E w \in AllWaiters : Wake(w)
    \/ WakeWrite
    \/ ProcessWake
    \/ ProcessWakeLock
    \/ ProcessWakeTake
    \/ ProcessWakeComplete
    \/ ProcessWakeEnd

DrainSpec == Init /\ [][DrainNext]_vars

CqNext ==
    \/ CqEnter
    \/ KernelPost
    \/ RunEvents
    \/ RunEventsLoop

CqSpec == Init /\ [][CqNext]_vars

SqNext ==
    \/ \E submit_all \in BOOLEAN : SqSetup(submit_all)
    \/ \E r \in SqOps : SqStartAsync(r)
    \/ \E r \in SqOps : SqCancel(r)
    \/ \E kind \in {"Ok", "Time", "Intr", "Busy", "Again", "Other"}, n \in 0..SqEntries :
          SqEnterCall([kind |-> kind, n |-> n])
    \/ \E wait \in BOOLEAN, needs_enter \in BOOLEAN : SqWork(wait, needs_enter)
    \/ SqKernelPost
    \/ SqCallback
    \/ SqPassEnd
    \/ SqExitDrained

SqSpec == Init /\ [][SqNext]_vars

\* the runtime thread's own steps: every one of them returns (park returns
\* within its timeout), and a cooperative task suspends or ends
DriverStep ==
    \/ RunTimersLoop
    \/ Park
    \/ BlockOnBlock
    \/ BlockWhileCheck
    \/ AfterPark
    \/ ExitStart
    \/ ExitDrain
    \/ ExitCheck

LiveSpec == Init /\ [][Next]_vars /\ WF_vars(DriverStep) /\ WF_vars(TaskSuspend)

\* ------------------------------------------------------------------------
\* Properties
\* ------------------------------------------------------------------------
Entry(r) == Timeout(req[r].expire, r)

\* C1: a request for which Driver::timeout returned Pending is completed at
\* most once, by run_timers with Ok, by its cancel token with Interrupted or
\* by exit with Shutdown; it is in the timer set exactly while it is pending,
\* so a completed request has no entry left; and when exit returns no request
\* is still pending.
TimerCompletedOnce ==
    \A r \in Requests :
        /\ req[r].completions <= 1
        /\ (req[r].state = "pending") <=> (\E t \in timers : t.request = r)
        /\ \A t \in timers : t.request = r => t = Entry(r)
        /\ req[r].state = "pending" => req[r].completions = 0
        /\ req[r].state = "done" =>
              /\ req[r].completions = 1
              /\ <<req[r].by, req[r].result>> \in
                    {<<"run_timers", "Ok">>, <<"cancel", "Interrupted">>,
                     <<"exit", "Shutdown">>}
        /\ step.op = "exit_return" => req[r].state # "pending"

TimerCompletedOnceWitness ==
    \E r, q \in Requests :
        /\ req[r].state = "done" /\ req[r].by = "cancel"
        /\ req[q].state = "done" /\ req[q].by = "run_timers"
        /\ step.op = "exit_return"

\* C2: a timer is never fired early: when run_timers completes a timer with
\* Ok, the stored expiry is at most the clock value read in that pass, which
\* is at most the clock; this includes timers inserted during the pass.
NeverFiredEarly ==
    step.op = "fire" =>
        /\ req[step.r].by = "run_timers"
        /\ req[step.r].result = "Ok"
        /\ req[step.r].expire <= rt.now
        /\ rt.now <= clock

NeverFiredEarlyWitness ==
    /\ step.op = "fire"
    /\ req[step.r].inPass
    /\ req[step.r].expire = clock

\* C3: running a timer's cancel token when its entry is not in the timer set
\* returns NotFound, completes no request and leaves the timer set unchanged.
CancelMissingTimer ==
    [][\A r \in Requests :
          (token[r] = "live" /\ token'[r] = "used" /\ Entry(r) \notin timers)
          => /\ step' = Tag("cancel", r, "NotFound")
             /\ timers' = timers
             /\ req' = req]_vars

CancelMissingTimerWitness ==
    \E r \in Requests :
        /\ step = Tag("cancel", r, "NotFound")
        /\ req[r].by = "exit"
        /\ req[r].completions = 1

\* the drain of exit is over: exit is in its second loop
Drained == caller = "exit" /\ pc # "exit_drain" /\ ~(pc = "task" /\ ret = "exit_drain")

\* C4 as stated: when exit returns, every timer that was pending at the call
\* has been completed with Shutdown, the timer set is empty and the engine
\* has neither an unflushed SQE nor a completion owed.
ExitShutsDownEveryTimer ==
    step.op = "exit_return" =>
        /\ timers = {}
        /\ to_submit = 0 /\ to_complete = 0
        /\ \A r \in atExit : req[r].state = "done" /\ req[r].result = "Shutdown"

\* C4 (amended): when exit returns, every timer that was pending at the call
\* has been completed exactly once, with Shutdown by the drain or with
\* Interrupted by a cancel token that a task resumed by the drain ran first;
\* the timer set is empty from the end of the drain on, and at return the
\* engine has neither an unflushed SQE nor a completion owed.
ExitCompletesEveryTimer ==
    /\ Drained => timers = {}
    /\ step.op = "exit_return" =>
          /\ timers = {}
          /\ to_submit = 0 /\ to_complete = 0
          /\ \A r \in atExit :
                /\ req[r].state = "done"
                /\ req[r].completions = 1
                /\ <<req[r].by, req[r].result>> \in
                      {<<"exit", "Shutdown">>, <<"cancel", "Interrupted">>}

ExitCompletesEveryTimerWitness ==
    /\ step.op = "exit_return"
    /\ \E r, q \in atExit : req[r].by = "exit" /\ req[q].by = "cancel"

\* C5 as stated: while the driver is exiting, Driver::timeout returns
\* Done(Err(Shutdown)) without inserting, and every I/O primitive other than
\* close fails with Shutdown without submitting.
RejectsWithShutdown ==
    [][(exiting /\ clock' = clock) =>
          /\ step'.op = "timeout" =>
                /\ step'.res = "Shutdown"
                /\ timers' = timers /\ token' = token
          /\ (step'.op = "io" /\ step'.r \in {0, 2}) =>
                /\ step'.res = "Shutdown"
                /\ to_submit' = to_submit /\ to_complete' = to_complete]_vars

\* C5 (amended): while the driver is exiting, Driver::timeout returns
\* Done(Err(Shutdown)) without inserting, and every I/O primitive other than
\* close fails without submitting: with Interrupted if the caller's
\* interrupted flag is set (that check comes first), with Shutdown otherwise.
RejectsWhileExiting ==
    [][(exiting /\ clock' = clock) =>
          /\ step'.op = "timeout" =>
                /\ step'.res = "Shutdown"
                /\ timers' = timers /\ token' = token
          /\ (step'.op = "io" /\ step'.r \in {0, 2}) =>
                /\ step'.res = IF step'.r = 2 THEN "Interrupted" ELSE "Shutdown"
                /\ to_submit' = to_submit /\ to_complete' = to_complete]_vars

\* a timeout rejected inside exit's drain, then an I/O primitive rejected
RejectsWhileExitingWitness ==
    /\ exiting
    /\ ret = "exit_drain"
    /\ step = Tag("io", 0, "Shutdown")
    /\ \E r \in Requests : req[r].state = "rejected"

\* C6: block_on returns only after the task has completed, and with the
\* task's output; once the task has completed, block_on eventually returns.
BlockOnReturnsOutput ==
    /\ [](result.returned => (task.done /\ result.value = task.output))
    /\ (task.done ~> result.returned)

\* the task completed from a callback inside the park loop
BlockOnReturnsOutputWitness ==
    /\ step.op = "block_on_return"
    /\ result.returned
    /\ result.value = 110
    /\ ~running

\* C7: interrupt() on a context with guards = 0 and a registered cancel
\* token sets interrupted, consumes the token, invokes it exactly once and
\* returns the token's own result.
InterruptInvokesToken ==
    [][(cstep'.op = "interrupt" /\ ctx.guards = 0 /\ ctx.cancel = "Some"
            /\ op.state = "blocked")
          => /\ ctx'.interrupted
             /\ ctx'.cancel = "None"
             /\ op'.invoked = op.invoked + 1
             /\ op'.invoked = 1
             /\ cstep'.res = op.tokenRes
             /\ ctx'.guards = 0
             /\ ctx'.pending_interrupt = ctx.pending_interrupt]_vars

InterruptInvokesTokenWitness ==
    /\ cstep = CTag("interrupt", "NotFound")
    /\ ctx.interrupted
    /\ ctx.cancel = "None"
    /\ op.invoked = 1
    /\ op.state = "blocked"

\* C8 as stated: interrupt() on a context with guards > 0 sets pending,
\* returns an error of kind Interrupted, does not invoke the cancel token and
\* leaves interrupted and guards unchanged.
PreventedInterruptIsInterrupted ==
    [][(cstep'.op = "interrupt" /\ ctx.guards > 0)
          => /\ ctx'.pending_interrupt
             /\ cstep'.res = "Interrupted"
             /\ op'.invoked = op.invoked /\ op'.cancelled = op.cancelled
             /\ op'.state = op.state
             /\ ctx'.cancel = ctx.cancel
             /\ ctx'.interrupted = ctx.interrupted
             /\ ctx'.guards = ctx.guards]_vars

\* C8 (amended): interrupt() on a context with guards > 0 sets pending,
\* returns an error of kind Other ("Interrupt is prevented"), does not invoke
\* the cancel token and leaves interrupted and guards unchanged.
PreventedInterruptIsOther ==
    [][(cstep'.op = "interrupt" /\ ctx.guards > 0)
          => /\ ctx'.pending_interrupt
             /\ cstep'.res = "Other"
             /\ op'.invoked = op.invoked /\ op'.cancelled = op.cancelled
             /\ op'.state = op.state
             /\ ctx'.cancel = ctx.cancel
             /\ ctx'.interrupted = ctx.interrupted
             /\ ctx'.guards = ctx.guards]_vars

PreventedInterruptIsOtherWitness ==
    /\ cstep = CTag("interrupt", "Other")
    /\ ctx.guards > 0
    /\ ctx.pending_interrupt
    /\ ~ctx.interrupted
    /\ op.state = "blocked"
    /\ op.invoked = 0

\* C9: while a guard is held an interrupt() neither sets interrupted nor runs
\* the cancel token, so the blocked operation completes naturally; acquiring
\* or releasing a guard while another is still held changes neither
\* interrupted nor pending; the release that brings guards to 0 with pending
\* set makes interrupted true and clears pending; check_interrupt fails with
\* Interrupted exactly when interrupted is set.
GuardsDeferInterrupt ==
    [][/\ (cstep'.op = "interrupt" /\ ctx.guards > 0)
            => /\ ctx'.interrupted = ctx.interrupted
               /\ op'.invoked = op.invoked /\ op'.cancelled = op.cancelled
       /\ (cstep'.op = "complete" /\ op.invoked = 0) => op'.last = "Ok"
       /\ (cstep'.op \in {"guard_acquire", "guard_release"} /\ ctx'.guards > 0)
            => /\ ctx'.interrupted = ctx.interrupted
               /\ ctx'.pending_interrupt = ctx.pending_interrupt
       /\ (cstep'.op = "guard_release" /\ ctx'.guards = 0 /\ ctx.pending_interrupt)
            => /\ ctx'.interrupted
               /\ ~ctx'.pending_interrupt
       /\ cstep'.op = "guard_release" => ctx'.guards = ctx.guards - 1
       /\ cstep'.op = "guard_acquire" => ctx'.guards = ctx.guards + 1
       /\ cstep'.op = "check_interrupt"
            => (cstep'.res = "Interrupted" <=> ctx.interrupted)]_vars

\* the guard was held across an operation that completed with Ok although an
\* interrupt() was prevented; the last release delivered it
GuardsDeferInterruptWitness ==
    /\ cstep = CTag("guard_release", "delivered")
    /\ ctx.guards = 0
    /\ ctx.interrupted
    /\ ~ctx.pending_interrupt
    /\ op.prevented
    /\ op.last = "Ok"
    /\ op.invoked = 0

\* C10: an interrupt raised while guards > 0 is never lost: whatever context
\* operations are performed in between, interrupted is true right after the
\* release that returns guards to 0.
DeferredInterruptNeverLost ==
    (cstep.op = "guard_release" /\ ctx.guards = 0 /\ op.prevented) => ctx.interrupted

SelectWinnerCompletedFirst ==
    (/\ selh.start[1] = "Pending"
     /\ selh.start[2] = "Pending"
     /\ selh.out # NoSelect)
    => /\ selh.first \in Branches
       /\ selh.out = IF selh.first = 1
                     THEN SelectFirst(selh.val[1], selh.val[2])
                     ELSE SelectSecond(selh.val[2], selh.val[1])
       /\ selh.val[1] \in BranchValues(1)
       /\ selh.val[2] \in BranchValues(2)

\* branch 2 completed first, branch 1 was cancelled and still delivered a value
SelectWinnerCompletedFirstWitness ==
    /\ selh.start[1] = "Pending"
    /\ selh.start[2] = "Pending"
    /\ selh.first = 2
    /\ selh.runBy[1] = "complete"
    /\ selh.out = SelectSecond(Value(2), Value(1))

\* C13: for a select whose branches both returned Pending, the outer request
\* is completed at most once and only after both branch requests completed,
\* and the first branch completion runs the other branch's cancel token
\* exactly once (and does nothing else, such as panicking)
SelectOuterOnceAfterBoth ==
    (selh.start[1] = "Pending" /\ selh.start[2] = "Pending")
    => /\ selh.outer <= 1
       /\ selh.outer = 1 => \A i \in Branches : selh.b[i] = "completed"
       /\ selh.first # 0
            => /\ selh.runs[3 - selh.first] = 1
               /\ selh.runBy[3 - selh.first] = "complete"
               /\ selh.state # "panicked"

\* C14: if the first task resolves synchronously, select returns
\* Done(First(value, None)) at once: the outer request is never completed
\* and the second task is never started, so it neither completes nor stays
\* pending
SelectFirstSyncDone ==
    selh.start[1] = "Done"
    => /\ selh.state = "Done"
       /\ selh.out = SelectFirst(selh.val[1], None)
       /\ selh.val[1] \in BranchValues(1)
       /\ selh.outer = 0
       /\ selh.start[2] = "none"
       /\ selh.b[2] = "idle"
       /\ sel.cancel[2] = "None"
       /\ selh.runs = [i \in Branches |-> 0]

SelectFirstSyncDoneWitness ==
    /\ selh.last.op = "select"
    /\ selh.start[1] = "Done"
    /\ selh.out = SelectFirst(Value(1), None)

\* C15: the second task resolves synchronously while the first is pending:
\* select runs the first task's cancel token before returning; it has
\* returned Done only if the first task's request completed inside that call,
\* otherwise Pending, and the outer request is then completed when the first
\* task's request completes; the synchronously resolved branch wins, the
\* result is delivered once, and Done never invokes the outer callback
SelectCancelRace ==
    (selh.start[1] = "Pending" /\ selh.start[2] = "Done")
    => /\ selh.runs[1] = 1
       /\ selh.runBy[1] = "select"
       /\ selh.state \in {"Done", "Pending", "Completed"}
       /\ selh.state = "Done"
            => /\ selh.b[1] = "completed"
               /\ selh.out = SelectSecond(selh.val[2], selh.val[1])
               /\ selh.val[1] \in BranchValues(1)
               /\ selh.outer = 0
       /\ selh.state = "Pending"
            => /\ selh.b[1] = "pending"
               /\ selh.out = NoSelect
               /\ selh.outer = 0
       /\ selh.state = "Completed"
            => /\ selh.b[1] = "completed"
               /\ selh.out = SelectSecond(selh.val[2], selh.val[1])
               /\ selh.val[1] \in BranchValues(1)
               /\ selh.outer = 1

\* the cancelled first task completed later and the outer request was completed
SelectCancelRaceWitness ==
    /\ selh.start[1] = "Pending"
    /\ selh.start[2] = "Done"
    /\ selh.state = "Completed"
    /\ selh.last = [op |-> "complete", i |-> 1]
    /\ selh.out = SelectSecond(Value(2), Interrupted(1))

\* C16: join delivers its result at most once, it has delivered exactly when
\* both branch results are available, and the value is Join(result of the
\* first task, result of the second task) whatever the order of completion;
\* two synchronous tasks give Done without the join ever being Pending
JoinDeliversBothOnce ==
    /\ jnh.outer <= 1
    /\ jnh.outer = 1 <=> jnh.state \in {"Completed", "undefined"}
    /\ jnh.state = "Done" => jnh.out # NoJoin
    /\ jnh.out # NoJoin <=> (jnh.val[1] # None /\ jnh.val[2] # None)
    /\ jnh.out # NoJoin
         => /\ jnh.out = [a |-> jnh.val[1], b |-> jnh.val[2]]
            /\ jnh.val[1] \in BranchValues(1)
            /\ jnh.val[2] \in BranchValues(2)
    /\ (jnh.start[1] = "Done" /\ jnh.start[2] = "Done")
         => (jnh.state = "Done" /\ jn.request = "null")

\* the second task completed first, the first one later: argument order kept
JoinDeliversBothOnceWitness ==
    /\ jnh.start = [i \in Branches |-> "Pending"]
    /\ jnh.last = [op |-> "complete", i |-> 1]
    /\ jnh.outer = 1
    /\ jnh.out = [a |-> Value(1), b |-> Value(2)]

\* C17: awaiting a JoinHandle yields the task's output exactly once: a task
\* that finished before the await (inside spawn or later) has its stored
\* output returned without suspending; when it finishes after the await
\* began, the output is forwarded to the waiter and is not stored as well
AwaitYieldsOutputOnce ==
    \A t \in Spawned :
    /\ sph[t].yields <= 1
    /\ sph[t].yields = 1 => sph[t].yielded = sph[t].tout /\ sph[t].tout \in Outputs
    /\ sph[t].awaited = "afterDone"
         => /\ sph[t].yields = 1
            /\ ~sph[t].suspended
            /\ sph[t].stored
            /\ ~sph[t].forwarded
    /\ sph[t].awaited = "beforeDone"
         => /\ sph[t].suspended
            /\ sph[t].task = "done"
                 => /\ sph[t].yields = 1
                    /\ sph[t].forwarded
                    /\ ~sph[t].stored
                    /\ sp[t].output = None

\* the task finished after the await began and its output reached the waiter
AwaitYieldsOutputOnceWitness ==
    \E t \in Spawned :
    /\ sph[t].awaited = "beforeDone"
    /\ sph[t].last = "complete"
    /\ sph[t].yields = 1
    /\ sph[t].yielded = 23

\* C18: dropping a JoinHandle never runs the task's cancel token, and the
\* Spawn allocation is freed exactly once, exactly when the task has
\* completed and the handle is dropped or consumed, in either order: never
\* while the task or a handle refers to it, never kept after both are gone
SpawnFreedWithLastRef ==
    \A t \in Spawned :
    /\ sph[t].frees <= 1
    /\ ~sph[t].uaf
    /\ sph[t].alloc = "freed" <=> (sph[t].task = "done" /\ sph[t].handle = "gone")
    /\ sph[t].alloc = "freed" <=> sph[t].frees = 1
    /\ sph[t].awaited = "no" => (sph[t].interrupts = 0 /\ (sph[t].task = "running" => sp[t].cancel = "Some"))

\* the handle was dropped first, the task finished later and freed the state
SpawnFreedWithLastRefWitness ==
    \E t \in Spawned :
    /\ sph[t].awaited = "no"
    /\ sph[t].last = "complete"
    /\ sph[t].handle = "gone"
    /\ sph[t].alloc = "freed"

\* C19: dropping the Runtime ends with no live worker: in every round each
\* worker linked at its start is interrupted once and the driver is then
\* drained, until no worker is linked; workers that swallow finitely many
\* interrupts and spawn further tasks have run to their end when drop returns
DropLeavesNoWorker ==
    /\ rdrop.dpc # "panicked"
    /\ \A w \in Workers : rdrop.hits[w] <= 1
    /\ rdrop.dpc = "exit"
         => \A w \in rdrop.start : rdrop.hits[w] = 1 \/ wk[w].state = "finished"
    /\ rdrop.dpc = "returned"
         => \A w \in Workers : wk[w].state \in {"unborn", "finished"}

\* C20: no wakeup is lost on the wake channel: a request pushed by wake for
\* a waiter that called prepare_wake is completed in the end, and the queue
\* is never left holding a request with the event fd's counter at 0, no
\* thread about to write it and process_wake not running
WakeNotLost ==
    /\ [](~(/\ wch.q # << >>
            /\ wch.efd = 0
            /\ wch.writers = 0
            /\ wch.pc = "idle"))
    /\ \A w \in Waiters : (wt[w].st = "queued") ~> (wt[w].st = "idle")

\* a request pushed behind another one, whose thread wrote nothing, was
\* completed, and process_wake has returned
WakeNotLostWitness ==
    \E w \in Waiters :
    /\ wt[w].silent
    /\ wt[w].n > 0
    /\ wt[w].st = "idle"
    /\ wch.pc = "idle"

\* C21: close is not interruptible: it is performed or submitted even when
\* the caller's interrupted flag is set and even while the driver is
\* exiting; every other I/O primitive fails with Interrupted when the flag
\* is set, else with Shutdown while the driver is exiting, and submits
\* nothing in either case
CloseAlwaysDispatched ==
    [][(step'.op = "io" /\ clock' = clock) =>
          /\ step'.r \in {1, 3} =>
                /\ step'.res \in {"Done", "Pending"}
                /\ step'.res = "Pending" =>
                      to_submit' + to_complete' = to_submit + to_complete + 1
          /\ step'.r \in {0, 2} =>
                /\ step'.res \in IF step'.r = 2 THEN {"Interrupted"}
                                  ELSE IF exiting THEN {"Shutdown"}
                                  ELSE {"Done", "Pending"}
                /\ step'.res \in {"Interrupted", "Shutdown"} =>
                      (to_submit' = to_submit /\ to_complete' = to_complete)]_vars

\* a close submitted by an interrupted task while the driver is exiting
CloseAlwaysDispatchedWitness ==
    /\ exiting
    /\ step = Tag("io", 3, "Pending")
    /\ to_submit + to_complete > 0

\* C22: a relative timeout (Abs clear) is always scheduled, and its stored
\* expiry is the saturating sum of the current time and the interval:
\* u64::MAX when the sum does not fit
RelativeTimeoutSaturates ==
    (tmo.state # "new" /\ ~tmo.abs) =>
        /\ tmo.state = "Pending"
        /\ tmo.queued
        /\ tmo.expire = Min(tmo.arg + tmo.now, U64Max)

\* C23: with MissedTickBehavior::Skip, a call of next that returns after an
\* earlier expiry was set and that reads a time later than that expiry plus
\* the delay sets the expiry to the first point of the lattice
\* last_expiry + k*delay that is later than now; a call that missed no tick
\* sets it to last_expiry + delay
SkipStaysOnLattice ==
    (/\ iv.state = "ready"
     /\ iv.behavior = "Skip"
     /\ iv.delay > 0
     /\ ~iv.first
     /\ iv.prev > 0) =>
        IF iv.at > iv.prev + iv.delay
        THEN \E k \in 1..(U64Max + 1) :
                /\ iv.expire = iv.prev + k * iv.delay
                /\ iv.expire > iv.at
                /\ iv.prev + (k - 1) * iv.delay <= iv.at
        ELSE iv.expire = iv.prev + iv.delay

\* ticks were missed and the time read is off the lattice, so the new
\* expiry is not now + delay
SkipStaysOnLatticeWitness ==
    /\ iv.state = "ready"
    /\ iv.behavior = "Skip"
    /\ ~iv.first
    /\ iv.prev > 0
    /\ iv.delay > 1
    /\ iv.at > iv.prev + iv.delay
    /\ (iv.at - iv.prev) % iv.delay # 0
    /\ iv.expire < iv.at + iv.delay

\* C24: block_while never parks when its predicate is false at the test
\* that follows run_timers, and when the predicate became false during a
\* park it returns from the test after the park, without running timers
\* or parking again
BlockWhileBreaksPromptly ==
    /\ [](pc = "park" /\ caller = "block_while" => running)
    /\ [][(pc = "bw_check1" /\ ~running /\ pc' # pc) =>
             (pc' = "idle" /\ result'.returned)]_vars
    /\ [][(pc = "after_park" /\ caller = "block_while" /\ ~running /\ pc' # pc) =>
             /\ pc' = "idle" /\ result'.returned
             /\ timers' = timers /\ req' = req /\ rt' = rt
             /\ to_submit' = to_submit /\ to_complete' = to_complete]_vars

\* the task ended in a callback run by park, and block_while returned from
\* its test after the park
BlockWhileBreaksPromptlyWitness ==
    /\ step = Tag("block_on_return", 2, "none")
    /\ task.done
    /\ result.returned

\* C25: run_timers returns 1 hour when no timer is left after its pass, and
\* otherwise the time from its clock reading (taken again if a timer fired
\* in the pass) to the earliest timer left, 0 if that one is already due: a
\* park of that length ends no later than the earliest pending expiry; and
\* while block_while's loop keeps running, the pending timers that are due
\* are all fired in the end (the clock never goes back, so a timer that is
\* due stays due until it is completed)
RunTimersWaitsForEarliest ==
    /\ [][(pc = "rt_loop" /\ step'.op = "run_timers_return" /\ pc' # pc) =>
             IF timers = {}
             THEN rt'.timeout = OneHour
             ELSE LET reading == IF rt.ran THEN clock ELSE rt.now
                      wait == rt'.timeout
                  IN  /\ \A t \in timers : t.expire > rt.now
                      /\ \A t \in timers :
                            t.expire >= reading => reading + wait <= t.expire
                      /\ \E t \in timers :
                            wait = IF t.expire > reading THEN t.expire - reading
                                   ELSE 0]_vars
    /\ ((\E r \in Requests : req[r].state = "pending" /\ req[r].expire <= clock)
           /\ caller = "block_while")
          ~> ((\A r \in Requests : req[r].state = "pending" => req[r].expire > clock)
                \/ caller # "block_while")

\* a pass that fired a timer, read the clock again and returned the wait
\* for a timer left in the set, counted from the later reading
RunTimersWaitsForEarliestWitness ==
    /\ step.op = "run_timers_return"
    /\ timers # {}
    /\ \E r \in Requests : req[r].state = "done" /\ req[r].by = "run_timers"
    /\ \E t \in timers :
          /\ rt.timeout = t.expire - clock
          /\ rt.timeout > 0
          /\ clock > 0

\* C26: wake writes the event fd exactly when the queue was empty right
\* before its own push, as seen under the lock, and never when the queue
\* already held a request; each write adds 1 and is the write of a thread
\* that found the queue empty
WakeWritesWhenEmpty ==
    /\ [][(\E w \in Waiters : wt[w].st = "waiting" /\ wt'[w].st = "queued") =>
             /\ Len(wch'.q) = Len(wch.q) + 1
             /\ wch'.efd = wch.efd
             /\ wch'.writers = IF wch.q = << >> THEN wch.writers + 1
                                ELSE wch.writers]_vars
    /\ [][wch'.efd > wch.efd =>
             /\ wch.writers > 0
             /\ wch'.writers = wch.writers - 1
             /\ wch'.efd = wch.efd + 1
             /\ wch'.q = wch.q]_vars

\* a request was pushed behind another one and no thread is about to write
WakeWritesWhenEmptyWitness ==
    /\ Len(wch.q) >= 2
    /\ wch.writers = 0
    /\ wch.efd > 0
    /\ \E w \in Waiters : wt[w].st = "queued" /\ wt[w].silent
                            /\ wch.q[Len(wch.q)] = w

\* C27: process_wake completes every request it takes from the queue exactly
\* once and in the order the requests were pushed: it takes the front of
\* the queue, at most MAX_RESUME requests per hold of the lock, completes
\* them front first, and the lock is free while a completion runs, so that
\* wake can push meanwhile (behind everything not yet completed)
WakeServiceFifo ==
    /\ [](LET pending == wch.batch \o wch.q
          IN  /\ Len(wch.batch) <= MAX_RESUME
              /\ wch.pc = "complete" => (wch.lock = "free" /\ wch.batch # << >>)
              /\ wch.pc # "complete" => wch.batch = << >>
              /\ \A i, j \in 1..Len(pending) :
                    pending[i] = pending[j] => i = j
              /\ \A w \in AllWaiters :
                    wt[w].st = "queued" <=>
                        \E i \in 1..Len(pending) : pending[i] = w)
    /\ [][(\E w \in AllWaiters : wt[w].st = "queued" /\ wt'[w].st = "idle") =>
             /\ wch.lock = "free"
             /\ wt[Head(wch.batch \o wch.q)].st = "queued"
             /\ wt'[Head(wch.batch \o wch.q)].st = "idle"
             /\ wch'.batch \o wch'.q = Tail(wch.batch \o wch.q)]_vars
    /\ [][(wch.pc = "locked" /\ wch'.pc = "complete") =>
             /\ wch'.batch \o wch'.q = wch.q
             /\ Len(wch'.batch) = Min(Len(wch.q), MAX_RESUME)
             /\ wch'.lock = "free"]_vars
    /\ [][(\E w \in AllWaiters : wt[w].st = "waiting" /\ wt'[w].st = "queued") =>
             \E w \in AllWaiters :
                /\ wt[w].st = "waiting"
                /\ wch'.batch \o wch'.q = Append(wch.batch \o wch.q, w)]_vars

\* MAX_RESUME requests were taken while the queue held more; some of the
\* taken ones are completed and a request waits in the queue behind them
WakeServiceFifoWitness ==
    /\ wch.pc = "complete"
    /\ wch.amount = MAX_RESUME
    /\ Len(wch.batch) < MAX_RESUME
    /\ wch.q # << >>
    /\ wch.lock = "free"

\* C28: outside process_wake exactly one poll of the event fd is
\* outstanding while expected_wakes > 0 and none when it is 0:
\* prepare_wake submits the poll only when it raises the count from 0 to
\* 1, process_wake lowers the count by the number of requests it completed
\* and submits the poll again exactly when the result is not 0, and the
\* count never goes below 0 (outside process_wake it is the number of
\* waiters not yet completed)
OnePollWhileExpected ==
    /\ [](/\ wch.expected >= 0
          /\ wch.pc = "idle" =>
                /\ wch.polls = IF wch.expected > 0 THEN 1 ELSE 0
                /\ wch.expected =
                      Cardinality({w \in AllWaiters :
                                      wt[w].st \in {"waiting", "queued"}}))
    /\ [][(\E w \in AllWaiters : wt[w].st = "idle" /\ wt'[w].st = "waiting") =>
             /\ wch'.expected = wch.expected + 1
             /\ wch'.polls = IF wch.expected = 0 THEN wch.polls + 1
                              ELSE wch.polls]_vars
    /\ [][(wch.pc = "end" /\ wch'.pc = "idle") =>
             /\ wch'.expected = wch.expected - wch.woken
             /\ wch'.polls = IF wch'.expected # 0 THEN 1 ELSE 0]_vars

\* process_wake is about to return after completing a request while
\* another wake is expected: no poll is outstanding until it submits one
OnePollWhileExpectedWitness ==
    /\ wch.pc = "end"
    /\ wch.woken >= 1
    /\ wch.expected > wch.woken
    /\ wch.polls = 0

\* C29: a pass of run_events over the range [head, tail) it was given
\* completes the request of every entry of the range exactly once and of
\* no entry outside it, and when it returns the published head is that tail
DispatchExactlyRange ==
    LET count == WrapSub(cq.start.tail, cq.start.head)
        range == {WrapAdd(cq.start.head, i) : i \in 0..(count - 1)}
    IN  /\ \A i, j \in 1..Len(cq.done) : cq.done[i] = cq.done[j] => i = j
        /\ \A i \in 1..Len(cq.done) : cq.done[i] \in range
        /\ cq.pc = "idle" =>
              /\ {cq.done[i] : i \in 1..Len(cq.done)} = range
              /\ Len(cq.done) = count
              /\ cq.khead = cq.start.tail

\* a pass over a range that wraps, ended, while the kernel posted further
\* entries that are left for the next pass
DispatchExactlyRangeWitness ==
    /\ cq.pc = "idle"
    /\ Len(cq.done) >= 2
    /\ cq.start.tail < cq.start.head
    /\ cq.ktail # cq.start.tail

\* C30 as stated: within a pass the requests are completed in ring order,
\* from head to tail
DispatchInRingOrder ==
    \A i \in 1..Len(cq.done) : cq.done[i] = WrapAdd(cq.start.head, i - 1)

\* C30 (amended): within a pass the request of the last entry (position
\* tail - 1) is completed first, and then the requests of the other
\* entries in ring order, from head to tail - 2
DispatchLastThenRingOrder ==
    \A i \in 1..Len(cq.done) :
        cq.done[i] = IF i = 1 THEN WrapSub(cq.start.tail, 1)
                     ELSE WrapAdd(cq.start.head, i - 2)

\* a pass over three entries or more has ended
DispatchLastThenRingOrderWitness ==
    /\ cq.pc = "idle"
    /\ Len(cq.done) >= 3
    /\ cq.done[1] # cq.start.head

\* C31 as stated: when the callback of a completion is invoked the
\* published head is already past that completion's entry, so an enter made
\* from a callback finds a head that accounts for every completion whose
\* callback has started
HeadPublishedBeforeEveryCallback ==
    /\ [](\A i \in 1..Len(cq.at) :
             WrapSub(cq.at[i], cq.start.head) > WrapSub(cq.done[i], cq.start.head))
    /\ [][(cq.pc = "loop" /\ cq'.to_complete = cq.to_complete + 1) =>
             WrapSub(cq.khead, cq.start.head) >= Len(cq.done)]_vars

\* C31 (amended): the callback of the last entry of the range is invoked
\* first with the published head still at the head the pass started from;
\* the callback of every other entry is invoked with the published head
\* just past that entry; so an enter made from a callback finds a head that
\* accounts for every completion whose callback has started but the last
\* entry's, which it accounts for only when the pass has ended
HeadPublishedBeforeLoopCallbacks ==
    /\ [](\A i \in 1..Len(cq.at) :
             cq.at[i] = IF i = 1 THEN cq.start.head ELSE WrapAdd(cq.done[i], 1))
    /\ [][(cq.pc = "loop" /\ cq'.to_complete = cq.to_complete + 1) =>
             WrapSub(cq.khead, cq.start.head) = Len(cq.done) - 1]_vars
    /\ []((cq.pc = "idle" /\ cq.done # << >>) =>
             WrapSub(cq.khead, cq.start.head) = Len(cq.done))

\* a callback of the loop has been invoked and work it queued has been
\* handed to the kernel while entries of the range are still to be completed
HeadPublishedBeforeLoopCallbacksWitness ==
    /\ cq.pc = "loop"
    /\ Len(cq.at) >= 2
    /\ cq.head # cq.tail
    /\ cq.to_complete > 0

\* C32: a push never writes over an entry the kernel has not read: the
\* entries written and not yet read by the kernel fit in the ring, to_submit
\* never exceeds the capacity and is below it whenever a further entry can
\* be pushed, and the kernel reads every entry that was pushed exactly
\* once, in the order of the pushes
PushNeverOverwrites ==
    /\ sq.to_submit <= SqEntries
    /\ sq.tail - sq.khead <= SqEntries
    /\ sq.pc \in {"idle", "pass"} => sq.to_submit < SqEntries
    /\ sq.tail = sq.started + Cardinality(sq.cancelled)
    /\ Len(sq.taken) = sq.khead
    /\ \A i, j \in 1..Len(sq.taken) : sq.taken[i] = sq.taken[j] => i = j
    /\ \A i \in 1..Len(sq.taken) :
          \/ sq.taken[i].op = "io" /\ sq.taken[i].user_data \in 1..sq.started
          \/ sq.taken[i].op = "cancel" /\ sq.taken[i].addr \in sq.cancelled
    /\ sq.khead = sq.tail =>
          \A r \in 1..sq.started : \E i \in 1..Len(sq.taken) : sq.taken[i] = IoEntry(r)

\* one operation more than the ring holds was started, the kernel read
\* them all in the order they were pushed, and all of them completed
PushNeverOverwritesWitness ==
    /\ sq.pc = "idle"
    /\ sq.started = SqEntries + 1
    /\ sq.khead = sq.tail
    /\ \A r \in SqOps : sq.completed[r] = 1
    /\ sq.taken[SqEntries + 1] = IoEntry(SqEntries + 1)
    /\ sq.taken[1] = IoEntry(1)

\* C33: when io_uring_enter accepts only part of what enter offered it,
\* without SUBMIT_ALL enter stays in its loop and offers the remaining
\* count, and with SUBMIT_ALL it returns OutOfMemory; enter returns Ok only
\* when nothing remains, and then the kernel has read every entry that was
\* published, each once
PartialSubmitRetried ==
    /\ [][(/\ sq.pc = "enter"
           /\ sq.kernel \subseteq sq'.kernel
           /\ sq'.last = "Ok"
           /\ sq'.khead - sq.khead < sq.left) =>
             IF sq.submit_all
             THEN sq'.ret = "OutOfMemory" /\ sq'.pc = "aborted"
             ELSE /\ sq'.pc = "enter"
                  /\ sq'.ret = "none"
                  /\ sq'.left = sq.left - (sq'.khead - sq.khead)
                  /\ sq'.left > 0]_vars
    /\ [](sq.ret = "Ok" =>
             /\ sq.left = 0
             /\ sq.khead = sq.ktail
             /\ Len(sq.taken) = sq.ktail
             /\ \A i, j \in 1..Len(sq.taken) : sq.taken[i] = sq.taken[j] => i = j)

\* without SUBMIT_ALL the kernel accepted part of what enter offered and
\* enter is about to offer the rest
PartialSubmitRetriedWitness ==
    /\ sq.pc = "enter"
    /\ ~sq.submit_all
    /\ sq.last = "Ok"
    /\ sq.left > 0
    /\ sq.left < sq.asked

\* C34: when io_uring_enter fails with Time, Intr or Busy and enter has
\* nothing left to submit, enter returns Ok and leaves the engine as a call
\* that succeeded and submitted nothing would; when it fails with Again,
\* enter returns OutOfMemory
BenignErrorIsOk ==
    /\ [][(sq.pc = "enter" /\ sq.left = 0 /\ sq'.last = "soft") =>
             /\ sq'.ret = "Ok"
             /\ [sq' EXCEPT !.last = "Ok"]
                    = AfterEnterCall(sq, [kind |-> "Ok", n |-> 0])]_vars
    /\ [][(sq.pc = "enter" /\ sq'.last = "Again") =>
             sq'.ret = "OutOfMemory"]_vars

\* enter had nothing to submit, io_uring_enter failed with one of the three
\* errors, and the engine goes on
BenignErrorIsOkWitness ==
    /\ sq.last = "soft"
    /\ sq.ret = "Ok"
    /\ sq.asked = 0
    /\ sq.pc \in {"idle", "pass"}

\* C35: running the cancel token of a pending engine operation writes one
\* submission entry, an ASYNC_CANCEL whose address is the target request
\* and whose user_data is the no-op request, and completes no request; the
\* completion of the cancel entry completes no request either; the target
\* is completed at most once, and only by run_events on the completion
\* entry that carries the target's own user_data
CancelOnlyQueuesEntry ==
    /\ [][sq'.cancelled # sq.cancelled =>
             \E r \in SqOps :
                 /\ sq'.cancelled = sq.cancelled \cup {r}
                 /\ r \notin sq.cancelled
                 /\ sq'.tail = sq.tail + 1
                 /\ sq'.entries = [sq.entries EXCEPT ![sq.tail % SqEntries] =
                        [op |-> "cancel", user_data |-> NO_OP, addr |-> r]]
                 /\ sq'.completed = sq.completed
                 /\ sq'.dispatched = sq.dispatched
                 /\ sq'.pass = sq.pass /\ sq'.cqes = sq.cqes]_vars
    /\ [][\A r \in SqOps : sq'.completed[r] # sq.completed[r] =>
             /\ sq.completed[r] = 0 /\ sq'.completed[r] = 1
             /\ sq'.dispatched = sq.dispatched + 1
             /\ \/ /\ sq.pc = "pass"
                   /\ sq.pass # << >>
                   /\ Head(sq.pass) = [op |-> "io", user_data |-> r, addr |-> 0]
                   /\ sq'.pass = Tail(sq.pass)
                \/ /\ sq.pc \in {"idle", "enter"} /\ sq'.pc = "pass"
                   /\ sq.cqes # << >>
                   /\ sq.cqes[Len(sq.cqes)] = [op |-> "io", user_data |-> r, addr |-> 0]
                   /\ sq'.pass = SubSeq(sq.cqes, 1, Len(sq.cqes) - 1)]_vars
    /\ [](\A r \in SqOps : sq.completed[r] <= 1)

\* an operation was cancelled while pending; the cancel entry and the
\* operation both completed, and the operation's request was completed once
CancelOnlyQueuesEntryWitness ==
    \E r \in sq.cancelled :
        /\ sq.completed[r] = 1
        /\ \E i \in 1..Len(sq.taken) : sq.taken[i] = [op |-> "cancel", user_data |-> NO_OP, addr |-> r]
        /\ \A e \in sq.kernel : e.op # "cancel"
        /\ sq.cqes = << >> /\ sq.pass = << >>
        /\ sq.pc = "idle"

\* C36 as stated: at every moment to_complete is the number of entries
\* enter published to the kernel less the number of completions whose
\* request has been completed, and has_work is false exactly when nothing
\* is unflushed and no completion is owed
InFlightCounterExact ==
    /\ sq.to_complete >= 0
    /\ sq.to_complete = sq.ktail - sq.dispatched
    /\ ~EngineHasWork(sq) <=> (sq.tail = sq.ktail /\ sq.ktail = sq.dispatched)

\* C36 (amended): to_complete never underflows and is the number of
\* entries enter published less the completions run_events has taken into
\* a pass, those of the running pass whose callback is still to be invoked
\* included; outside run_events it is the number published less the number
\* dispatched, has_work is false exactly when nothing is unflushed and no
\* completion is owed, and exit's drain loop ends only then
InFlightCounterExactBetweenPasses ==
    /\ sq.to_complete >= 0
    /\ sq.to_submit = sq.tail - sq.ktail
    /\ sq.to_complete = sq.ktail - sq.dispatched - Len(sq.pass)
    /\ sq.pc \in {"idle", "drained"} =>
          /\ sq.to_complete = sq.ktail - sq.dispatched
          /\ sq.to_complete = Cardinality(sq.kernel) + Len(sq.cqes)
          /\ (sq.to_complete = 0 /\ sq.to_submit = 0) <=>
                 (sq.tail = sq.ktail /\ sq.kernel = {} /\ sq.cqes = << >>)
    /\ sq.pc = "drained" =>
          /\ sq.tail = sq.khead
          /\ sq.dispatched = sq.tail
          /\ sq.kernel = {} /\ sq.cqes = << >> /\ sq.pass = << >>

\* exit's drain loop has ended after operations were started, flushed by a
\* full ring and dispatched in a pass over more than one completion
InFlightCounterExactBetweenPassesWitness ==
    /\ sq.pc = "drained"
    /\ sq.started > SqEntries
    /\ sq.dispatched = sq.tail
    /\ sq.cancelled # {}

\* C37: Context::interrupt runs a cancel token only while the worker is
\* suspended in the block_on that registered it: interrupt never finds the
\* context without a registered token, and no token is run twice
CancelTokenOnlyWhileSuspended ==
    /\ cstep # CTag("interrupt", "panic")
    /\ op.state # "panicked"
    /\ op.invoked <= 1
    /\ op.invoked = 1 => ctx.cancel = "None"

\* C38: whenever a branch's completion callback runs while the other
\* branch has no result, the other branch's cancel token is there to be
\* taken, so complete never unwraps a missing token (also when branch 1
\* completes while branch 2 is being started, and after the select's own
\* cancel token ran), and no branch token is run twice
SelectTokenPresentAtCompletion ==
    /\ selh.state # "panicked"
    /\ \A i \in Branches : selh.runs[i] <= 1

\* C39: running the cancel token of a pending join succeeds whatever the
\* progress of its branches: it unwraps no missing token and runs the token
\* of no branch that has already completed, and it runs the token of every
\* branch that is still pending
JoinCancelSkipsCompleted ==
    /\ ~jnh.panicked
    /\ ~jnh.stale
    /\ jnh.state # "undefined"
    /\ (jnh.cancelled /\ jnh.last.op = "cancel") =>
          \A i \in Branches : jn.cancel[i] = "None"

====
